---- MODULE Spec2Model ----
(***************************************************************************)
(* Verification model of receipt-ai (backend).                             *)
(*                                                                         *)
(* The module holds one state machine per part of the program:             *)
(*   Spec          workers/scheduler.py   trigger_batch, _run_batch_thread *)
(*   SpecEngine    services/paddle_ocr.py _init_paddle, _init_clip         *)
(*   SpecValidate  services/receipt_parser.py ReceiptPostProcessor.process *)
(*   SpecMerge     services/ollama.py     _sanitize,                       *)
(*                                        _merge_with_deterministic        *)
(*   SpecMath      services/receipt_parser.py                              *)
(*                                        process on amounts               *)
(*   SpecParse     services/paddle_ocr.py, services/ollama.py              *)
(*                                        parse_receipt                    *)
(*   SpecReceipt   services/deterministic_parser.py parse, then           *)
(*                                        parse_receipt on a receipt text  *)
(*   SpecAnchors   services/deterministic_parser.py parse on dates and     *)
(*                                        totals                           *)
(*   SpecOcr       services/paddle_ocr.py, services/ollama.py              *)
(*                                        ocr_document                     *)
(*   SpecRuns      workers/processor.py   _pipeline, the parse phase over  *)
(*                                        successive runs                  *)
(*   SpecSeq       workers/processor.py   _run_with_timeout, run_batch     *)
(*   SpecDoc       workers/processor.py   DocumentProcessor                *)
(*                                        process_document, _pipeline      *)
(*                                                                         *)
(* Money is counted in integer cents, confidence in hundredths.            *)
(***************************************************************************)
EXTENDS Integers, Sequences, FiniteSets, TLC

(***************************************************************************)
(* Bounds of the model.                                                    *)
(***************************************************************************)
\* Threads that call trigger_batch (HTTP POST /batch handlers, the nightly job).
NCallers == 2
\* Calls of trigger_batch each of them makes.
MaxCalls == 2
\* Threads that use the DocumentProcessor's PaddleOCRClient concurrently (the
\* pipeline threads that _run_with_timeout starts and stops waiting for).
NThreads == 2
\* Calls of _init_paddle / _init_clip each thread makes.
MaxInitCalls == 2
\* Longest string that the validator is given in a numeric field.
MaxStrLen == 3

VARIABLES
    \* ---- workers/scheduler.py ----
    lock,        \* _lock: TRUE when the threading.Lock is held
    job,         \* _job: the batch-status record
    tpc,         \* per caller: where it is inside trigger_batch
    tret,        \* per caller: what its last trigger_batch call returned
    tsaw,        \* per caller: its last call found the lock held
    twon,        \* per caller: its last call acquired the lock
    tspawned,    \* per caller: worker threads its last call started
    ncalls,      \* per caller: trigger_batch calls made so far
    wpc,         \* per worker thread: where it is inside _run_batch_thread
    nworkers,    \* worker threads started so far
    \* ---- services/paddle_ocr.py, lazy initialization ----
    paddle_lock,   \* PaddleOCRClient._paddle_lock (class level): holder thread, 0 when free
    clip_lock,     \* PaddleOCRClient._clip_lock (class level): holder thread, 0 when free
    paddle_ready,  \* per client: self._paddle_ready
    paddle_engine, \* per client: engines constructed successfully for self._paddle_engine
    clip_ready,    \* per client: self._clip_ready
    clip_model,    \* per client: models loaded successfully for self._clip_model
    ith,           \* per thread: its position inside _init_paddle / _init_clip
    \* ---- services/receipt_parser.py, a call of process ----
    vraw,        \* raw: the dict that process is given
    vocr,        \* ocr_text: the text that process is given
    vout,        \* the dict that process returned
    vpc,         \* "ready" before the call, "done" after it
    \* ---- services/ollama.py, a merge ----
    mparsed,     \* parsed: the JSON object of the model's answer
    mdet,        \* det: the result of the deterministic pre-scan
    mllm,        \* sanitized: the result of _sanitize
    mout,        \* the result of _merge_with_deterministic
    mpc,         \* "parsed", "sanitized", "merged"
    \* ---- a call of process on amounts ----
    xraw,        \* raw
    xpre,        \* data and warnings before _validate_math
    xval,        \* data and warnings that _validate_math returned
    xout,        \* the result of process
    xpc,         \* "ready", "done"
    \* ---- a call of PaddleOCRClient.parse_receipt ----
    pshort,      \* len(ocr_text.strip()) < MIN_OCR_LENGTH
    ptext,       \* ocr_text, by what the validator's scans find in it
    pdet0,       \* what self._det.parse(ocr_text) returns
    plogo,       \* logo_hint
    pdet,        \* det, once the logo hint is applied
    pprompts,    \* prompts sent to the model by _generate, in order
    pparsed,     \* parsed: the JSON object of the model's answer
    ppost,       \* post: the first post-processed result
    ppatched,    \* result of _second_pass before it is processed again
    pres,        \* the dict that parse_receipt returned
    ppath,       \* the path that produced it
    ppc,         \* position inside parse_receipt
    \* ---- a call of DocumentProcessor.process_document ----
    din,         \* the document, the configuration and the stored Document row
    ddoc_ocr,    \* doc.ocr_text, by its length
    dtext,       \* ocr_text, by its length
    dmethod,     \* ocr_method
    dlogo,       \* logo_hint
    dparsed,     \* parsed: "error", "not_receipt" or "receipt"
    dlast,       \* doc.last_status
    dfailed,     \* the stages that failed, each with the way it failed
    dexc,        \* the exception that left _pipeline
    dres,        \* the dict that process_document returned
    dpc,         \* position inside process_document
    \* ---- a receipt text given to PaddleOCRClient.parse_receipt ----
    rlines,      \* the lines of ocr_text
    \* ---- the recognition calls of one DocumentProcessor over a batch ----
    sdoc,        \* the document that run_batch is processing
    spc,         \* the stage of _pipeline whose call comes next or is awaited
    sjoin,       \* TRUE while _run_with_timeout waits in t.join
    sfallback,   \* whether the document has cached or pre-extracted text
    srunning,    \* the calls whose daemon thread is still executing
    sfinished,   \* the calls that have ended, with how they ended
    \* ---- one call of PaddleOCRClient.ocr_document ----
    okind,       \* the document: an image, a PDF with text, a scanned PDF, a PDF that cannot be rasterized
    opaperless,  \* whether paperless_text has MIN_OCR_LENGTH characters or more
    opc,         \* position inside ocr_document
    otrail,      \* the engine and model calls made so far, each with the length of what it returned
    otext,       \* the text that the call holds
    ofirst,      \* the first-pass text that the quick anchor pass was run on
    ores,        \* what ocr_document returned
    \* ---- successive runs of _pipeline over one document, the parse phase ----
    kdoc,        \* the Document row: structured_parse_hash, last_status, whether a Receipt row exists
    kin,         \* the run: its OCR text, force_reocr, text_changed
    kparsed,     \* parsed: what parse_receipt returned in this run
    kpc,         \* position inside the parse phase
    khist        \* the runs that have returned, in order

batchVars == <<lock, job, tpc, tret, tsaw, twon, tspawned, ncalls, wpc, nworkers>>

engineVars == <<paddle_lock, clip_lock, paddle_ready, paddle_engine, clip_ready, clip_model, ith>>

validateVars == <<vraw, vocr, vout, vpc>>

mergeVars == <<mparsed, mdet, mllm, mout, mpc>>

parseVars == <<pshort, ptext, pdet0, plogo, pdet, pprompts, pparsed, ppost, ppatched, pres,
               ppath, ppc>>

mathVars == <<xraw, xpre, xval, xout, xpc>>

docVars == <<din, ddoc_ocr, dtext, dmethod, dlogo, dparsed, dlast, dfailed, dexc, dres, dpc>>

receiptVars == <<rlines>>

seqVars == <<sdoc, spc, sjoin, sfallback, srunning, sfinished>>

ocrVars == <<okind, opaperless, opc, otrail, otext, ofirst, ores>>

runsVars == <<kdoc, kin, kparsed, kpc, khist>>

vars ==
    <<batchVars, engineVars, validateVars, mergeVars, parseVars, docVars, mathVars, receiptVars, seqVars, ocrVars, runsVars>>

\* What the actions of one part leave alone.
notBatch ==
    <<engineVars, validateVars, mergeVars, parseVars, docVars, mathVars, receiptVars, seqVars, ocrVars, runsVars>>
notEngine ==
    <<batchVars, validateVars, mergeVars, parseVars, docVars, mathVars, receiptVars, seqVars, ocrVars, runsVars>>
notValidate ==
    <<batchVars, engineVars, mergeVars, parseVars, docVars, mathVars, receiptVars, seqVars, ocrVars, runsVars>>
notMerge ==
    <<batchVars, engineVars, validateVars, parseVars, docVars, mathVars, receiptVars, seqVars, ocrVars, runsVars>>
notParse ==
    <<batchVars, engineVars, validateVars, mergeVars, docVars, mathVars, receiptVars, seqVars, ocrVars, runsVars>>
notDoc ==
    <<batchVars, engineVars, validateVars, mergeVars, parseVars, mathVars, receiptVars, seqVars, ocrVars, runsVars>>
notMath ==
    <<batchVars, engineVars, validateVars, mergeVars, parseVars, docVars, receiptVars, seqVars, ocrVars, runsVars>>
notReceipt ==
    <<batchVars, engineVars, validateVars, mergeVars, parseVars, docVars, mathVars, seqVars, ocrVars, runsVars>>
notSeq ==
    <<batchVars, engineVars, validateVars, mergeVars, parseVars, docVars, mathVars, receiptVars, ocrVars, runsVars>>
notOcr ==
    <<batchVars, engineVars, validateVars, mergeVars, parseVars, docVars, mathVars, receiptVars, seqVars, runsVars>>
notRuns ==
    <<batchVars, engineVars, validateVars, mergeVars, parseVars, docVars, mathVars, receiptVars, seqVars, ocrVars>>

(***************************************************************************)
(* workers/scheduler.py                                                    *)
(***************************************************************************)
Callers == 1..NCallers
MaxWorkers == NCallers * MaxCalls
Workers == 1..MaxWorkers

\* Positions of a worker thread between its start and its end.
WorkerActive == {"import", "update", "run", "finally", "release"}

job_init == [running |-> FALSE, started |-> FALSE, stats |-> FALSE, error |-> FALSE]

BatchInit ==
    /\ lock = FALSE
    /\ job = job_init
    /\ tpc = [c \in Callers |-> "idle"]
    /\ tret = [c \in Callers |-> "none"]
    /\ tsaw = [c \in Callers |-> FALSE]
    /\ twon = [c \in Callers |-> FALSE]
    /\ tspawned = [c \in Callers |-> 0]
    /\ ncalls = [c \in Callers |-> 0]
    /\ wpc = [w \in Workers |-> "none"]
    /\ nworkers = 0

\* _lock.acquire(blocking=False): succeeds exactly when the lock is free.
AcquireSucceeds_always == TRUE
AcquireSucceeds == ~lock

\* trigger_batch, line 44-45: the non-blocking acquire; a failed acquire returns False.
trigger_batch_acquire(c) ==
    /\ tpc[c] = "idle"
    /\ ncalls[c] < MaxCalls
    /\ ncalls' = [ncalls EXCEPT ![c] = @ + 1]
    /\ tspawned' = [tspawned EXCEPT ![c] = 0]
    /\ IF AcquireSucceeds
          THEN /\ lock' = TRUE
               /\ tpc' = [tpc EXCEPT ![c] = "start"]
               /\ tret' = [tret EXCEPT ![c] = "none"]
               /\ tsaw' = [tsaw EXCEPT ![c] = FALSE]
               /\ twon' = [twon EXCEPT ![c] = TRUE]
          ELSE /\ lock' = lock
               /\ tpc' = tpc
               /\ tret' = [tret EXCEPT ![c] = "false"]
               /\ tsaw' = [tsaw EXCEPT ![c] = TRUE]
               /\ twon' = [twon EXCEPT ![c] = FALSE]
    /\ UNCHANGED <<notBatch, job, wpc, nworkers>>

\* trigger_batch, line 47-54: the thread is created and started; return True.
trigger_batch_start(c) ==
    /\ tpc[c] = "start"
    /\ nworkers < MaxWorkers
    /\ nworkers' = nworkers + 1
    /\ wpc' = [wpc EXCEPT ![nworkers + 1] = "import"]
    /\ tspawned' = [tspawned EXCEPT ![c] = @ + 1]
    /\ tpc' = [tpc EXCEPT ![c] = "idle"]
    /\ tret' = [tret EXCEPT ![c] = "true"]
    /\ UNCHANGED <<notBatch, lock, job, tsaw, twon, ncalls>>

\* trigger_batch, line 53 raising (the thread cannot be launched): control
\* passes to the except clause.
trigger_batch_start_fails(c) ==
    /\ tpc[c] = "start"
    /\ tpc' = [tpc EXCEPT ![c] = "except"]
    /\ UNCHANGED <<notBatch, lock, job, tret, tsaw, twon, tspawned, ncalls, wpc, nworkers>>

\* trigger_batch, line 55-59: release the lock, return False.
trigger_batch_except(c) ==
    /\ tpc[c] = "except"
    /\ lock' = FALSE
    /\ tpc' = [tpc EXCEPT ![c] = "idle"]
    /\ tret' = [tret EXCEPT ![c] = "false"]
    /\ UNCHANGED <<notBatch, job, tsaw, twon, tspawned, ncalls, wpc, nworkers>>

\* _run_batch_thread, line 25: the late import of workers.processor succeeds.
run_batch_thread_import(w) ==
    /\ wpc[w] = "import"
    /\ wpc' = [wpc EXCEPT ![w] = "update"]
    /\ UNCHANGED <<notBatch, lock, job, tpc, tret, tsaw, twon, tspawned, ncalls, nworkers>>

\* _run_batch_thread, line 25: the import raises. The statement stands before
\* the try block, so neither the except nor the finally clause runs and the
\* thread ends with the exception.
run_batch_thread_import_raises(w) ==
    /\ wpc[w] = "import"
    /\ wpc' = [wpc EXCEPT ![w] = "dead"]
    /\ UNCHANGED <<notBatch, lock, job, tpc, tret, tsaw, twon, tspawned, ncalls, nworkers>>

\* _run_batch_thread, line 26: _job.update(running=True, started=..., stats=None, error=None).
run_batch_thread_update(w) ==
    /\ wpc[w] = "update"
    /\ job' = [running |-> TRUE, started |-> TRUE, stats |-> FALSE, error |-> FALSE]
    /\ wpc' = [wpc EXCEPT ![w] = "run"]
    /\ UNCHANGED <<notBatch, lock, tpc, tret, tsaw, twon, tspawned, ncalls, nworkers>>

\* _run_batch_thread, line 27-33: run_batch returns its stats, or raises and
\* the except clause records the error.
run_batch_thread_run(w) ==
    /\ wpc[w] = "run"
    /\ \E raised \in BOOLEAN :
          job' = IF raised THEN [job EXCEPT !.error = TRUE]
                           ELSE [job EXCEPT !.stats = TRUE]
    /\ wpc' = [wpc EXCEPT ![w] = "finally"]
    /\ UNCHANGED <<notBatch, lock, tpc, tret, tsaw, twon, tspawned, ncalls, nworkers>>

\* The finally clause without its first statement: running stays as it is.
running_kept(running) == running
\* line 35: the value that the finally clause gives to _job["running"]
running_after_batch(running) == FALSE

\* _run_batch_thread, line 35: _job["running"] = False.
run_batch_thread_finally(w) ==
    /\ wpc[w] = "finally"
    /\ job' = [job EXCEPT !.running = running_after_batch(@)]
    /\ wpc' = [wpc EXCEPT ![w] = "release"]
    /\ UNCHANGED <<notBatch, lock, tpc, tret, tsaw, twon, tspawned, ncalls, nworkers>>

\* _run_batch_thread, line 36: _lock.release().
run_batch_thread_release(w) ==
    /\ wpc[w] = "release"
    /\ lock' = FALSE
    /\ wpc' = [wpc EXCEPT ![w] = "done"]
    /\ UNCHANGED <<notBatch, job, tpc, tret, tsaw, twon, tspawned, ncalls, nworkers>>

BatchNext ==
    \/ \E c \in Callers : trigger_batch_acquire(c)
    \/ \E c \in Callers : trigger_batch_start(c)
    \/ \E c \in Callers : trigger_batch_start_fails(c)
    \/ \E c \in Callers : trigger_batch_except(c)
    \/ \E w \in Workers : run_batch_thread_import(w)
    \/ \E w \in Workers : run_batch_thread_import_raises(w)
    \/ \E w \in Workers : run_batch_thread_update(w)
    \/ \E w \in Workers : run_batch_thread_run(w)
    \/ \E w \in Workers : run_batch_thread_finally(w)
    \/ \E w \in Workers : run_batch_thread_release(w)

(***************************************************************************)
(* services/paddle_ocr.py: lazy initialization of the engines              *)
(***************************************************************************)
Threads == 1..NThreads
\* The PaddleOCRClient the threads share: DocumentProcessor.paddle_ocr.
Clients == {"paddle_ocr"}

\* _init_paddle(max_retries=3)
max_retries == 3

\* _init_paddle, line 151-152: after a corrupt download the loop continues
\* while attempts remain.
may_retry_always(attempt) == TRUE
may_retry(attempt) == attempt < max_retries

\* What one attempt of _init_paddle does, in order: _cleanup_partial_downloads
\* and the construction of the engine (line 121-129), and after a corrupt
\* download _cleanup_partial_downloads again (line 150).
AttemptDone == <<"cleanup", "construct">>
AttemptCorrupt == <<"cleanup", "construct", "cleanup">>

\* ocr_document, line 273-310: the engine is used when _init_paddle returned
\* True; otherwise the document goes to _ollama_vision_fallback.
ocr_after_init(r) == IF r = "true" THEN "run_paddle_ocr" ELSE "vision_fallback"

\* The engine constructions that a call of _init_paddle attempted.
Constructs(trail) == Cardinality({i \in 1..Len(trail) : trail[i] = "construct"})

\* A thread outside any call.  trail: what the call did; exhausted_before:
\* the thread's previous call was _init_paddle and returned False after
\* max_retries attempts; path: where ocr_document went after the call.
ith_idle == [pc |-> "idle", kind |-> "none", client |-> "paddle_ocr", attempt |-> 0,
             ret |-> "none", built |-> FALSE, waited |-> FALSE, calls |-> 0,
             trail |-> <<>>, exhausted_before |-> FALSE, path |-> "none"]

EngineInit ==
    /\ paddle_lock = 0
    /\ clip_lock = 0
    /\ paddle_ready = [k \in Clients |-> FALSE]
    /\ paddle_engine = [k \in Clients |-> 0]
    /\ clip_ready = [k \in Clients |-> FALSE]
    /\ clip_model = [k \in Clients |-> 0]
    /\ ith = [t \in Threads |-> ith_idle]

\* The thread's record at the start of a call of _init_<kind> on client k.
ith_call(t, kind, k, pc) ==
    [ith[t] EXCEPT !.pc = pc, !.kind = kind, !.client = k, !.attempt = 0, !.ret = "none",
                   !.built = FALSE, !.waited = FALSE, !.calls = @ + 1, !.trail = <<>>,
                   !.exhausted_before = /\ ith[t].kind = "paddle" /\ ith[t].ret = "false"
                                        /\ Constructs(ith[t].trail) = max_retries,
                   !.path = "none"]

\* The thread's record when its call returns r.
ith_return(t, r) ==
    [ith[t] EXCEPT !.pc = "idle", !.ret = r,
                   !.path = IF ith[t].kind = "paddle" THEN ocr_after_init(r) ELSE "none"]

\* _init_paddle, line 115: the double-check after acquiring the lock.
PaddleDoubleCheck_skipped(k) == FALSE
PaddleDoubleCheck(k) == paddle_ready[k]

\* _init_clip, line 198: the double-check after acquiring the lock.
ClipDoubleCheck_skipped(k) == FALSE
ClipDoubleCheck(k) == clip_ready[k]

\* _init_paddle, line 110-111: the unlocked check of the ready flag; a ready
\* engine is reused, otherwise the thread goes on to the lock.
init_paddle_check(t) ==
    /\ ith[t].pc = "idle"
    /\ ith[t].calls < MaxInitCalls
    /\ \E k \in Clients :
          ith' = [ith EXCEPT ![t] =
                    IF paddle_ready[k]
                       THEN [ith_call(t, "paddle", k, "idle") EXCEPT
                                !.ret = "true", !.path = ocr_after_init("true")]
                       ELSE [ith_call(t, "paddle", k, "p_lock") EXCEPT !.waited = (paddle_lock # 0)]]
    /\ UNCHANGED <<notEngine, paddle_lock, clip_lock, paddle_ready, paddle_engine,
                   clip_ready, clip_model>>

\* _init_paddle, line 113: with PaddleOCRClient._paddle_lock (blocks while held).
init_paddle_lock(t) ==
    /\ ith[t].pc = "p_lock"
    /\ paddle_lock = 0
    /\ paddle_lock' = t
    /\ ith' = [ith EXCEPT ![t].pc = "p_dcheck"]
    /\ UNCHANGED <<notEngine, clip_lock, paddle_ready, paddle_engine, clip_ready, clip_model>>

\* _init_paddle, line 115-116: double-check under the lock; line 118: the
\* first attempt begins.
init_paddle_dcheck(t) ==
    /\ ith[t].pc = "p_dcheck"
    /\ IF PaddleDoubleCheck(ith[t].client)
          THEN /\ paddle_lock' = 0
               /\ ith' = [ith EXCEPT ![t] = ith_return(t, "true")]
          ELSE /\ paddle_lock' = paddle_lock
               /\ ith' = [ith EXCEPT ![t].pc = "p_try", ![t].attempt = 1]
    /\ UNCHANGED <<notEngine, clip_lock, paddle_ready, paddle_engine, clip_ready, clip_model>>

\* _init_paddle, line 119-133: an attempt constructs the engine, sets the
\* ready flag and returns True (leaving the with block releases the lock).
init_paddle_try_ok(t) ==
    /\ ith[t].pc = "p_try"
    /\ paddle_engine' = [paddle_engine EXCEPT ![ith[t].client] = @ + 1]
    /\ paddle_ready' = [paddle_ready EXCEPT ![ith[t].client] = TRUE]
    /\ paddle_lock' = 0
    /\ ith' = [ith EXCEPT ![t] = [ith_return(t, "true") EXCEPT
                                    !.built = TRUE, !.trail = @ \o AttemptDone]]
    /\ UNCHANGED <<notEngine, clip_lock, clip_ready, clip_model>>

\* _init_paddle, line 134-152: an attempt fails on a corrupt download; the
\* partial files are removed and, attempts remaining, the loop continues.
init_paddle_try_retry(t) ==
    /\ ith[t].pc = "p_try"
    /\ may_retry(ith[t].attempt)
    /\ ith' = [ith EXCEPT ![t].attempt = @ + 1, ![t].trail = @ \o AttemptCorrupt]
    /\ UNCHANGED <<notEngine, paddle_lock, clip_lock, paddle_ready, paddle_engine,
                   clip_ready, clip_model>>

\* _init_paddle, line 134-157: an attempt fails with another error, or with a
\* corrupt download on the last attempt: break, clear the flag, return False.
init_paddle_try_fail(t) ==
    /\ ith[t].pc = "p_try"
    /\ paddle_ready' = [paddle_ready EXCEPT ![ith[t].client] = FALSE]
    /\ paddle_lock' = 0
    /\ \E corrupt \in BOOLEAN :
          /\ corrupt => ~may_retry(ith[t].attempt)
          /\ ith' = [ith EXCEPT ![t] = [ith_return(t, "false") EXCEPT
                        !.trail = @ \o (IF corrupt THEN AttemptCorrupt ELSE AttemptDone)]]
    /\ UNCHANGED <<notEngine, clip_lock, paddle_engine, clip_ready, clip_model>>

\* _init_clip, line 193-194: the unlocked check of the ready flag.
init_clip_check(t) ==
    /\ ith[t].pc = "idle"
    /\ ith[t].calls < MaxInitCalls
    /\ \E k \in Clients :
          ith' = [ith EXCEPT ![t] =
                    IF clip_ready[k]
                       THEN [ith_call(t, "clip", k, "idle") EXCEPT !.ret = "true"]
                       ELSE [ith_call(t, "clip", k, "c_lock") EXCEPT !.waited = (clip_lock # 0)]]
    /\ UNCHANGED <<notEngine, paddle_lock, clip_lock, paddle_ready, paddle_engine,
                   clip_ready, clip_model>>

\* _init_clip, line 196: with PaddleOCRClient._clip_lock.
init_clip_lock(t) ==
    /\ ith[t].pc = "c_lock"
    /\ clip_lock = 0
    /\ clip_lock' = t
    /\ ith' = [ith EXCEPT ![t].pc = "c_dcheck"]
    /\ UNCHANGED <<notEngine, paddle_lock, paddle_ready, paddle_engine, clip_ready, clip_model>>

\* _init_clip, line 198-199: double-check under the lock.
init_clip_dcheck(t) ==
    /\ ith[t].pc = "c_dcheck"
    /\ IF ClipDoubleCheck(ith[t].client)
          THEN /\ clip_lock' = 0
               /\ ith' = [ith EXCEPT ![t] = ith_return(t, "true")]
          ELSE /\ clip_lock' = clip_lock
               /\ ith' = [ith EXCEPT ![t].pc = "c_try", ![t].attempt = 1]
    /\ UNCHANGED <<notEngine, paddle_lock, paddle_ready, paddle_engine, clip_ready, clip_model>>

\* _init_clip, line 201-209: processor and model load; ready; return True.
init_clip_try_ok(t) ==
    /\ ith[t].pc = "c_try"
    /\ clip_model' = [clip_model EXCEPT ![ith[t].client] = @ + 1]
    /\ clip_ready' = [clip_ready EXCEPT ![ith[t].client] = TRUE]
    /\ clip_lock' = 0
    /\ ith' = [ith EXCEPT ![t] = [ith_return(t, "true") EXCEPT !.built = TRUE]]
    /\ UNCHANGED <<notEngine, paddle_lock, paddle_ready, paddle_engine>>

\* _init_clip, line 210-213: the load raises; clear the flag, return False.
init_clip_try_fail(t) ==
    /\ ith[t].pc = "c_try"
    /\ clip_ready' = [clip_ready EXCEPT ![ith[t].client] = FALSE]
    /\ clip_lock' = 0
    /\ ith' = [ith EXCEPT ![t] = ith_return(t, "false")]
    /\ UNCHANGED <<notEngine, paddle_lock, paddle_ready, paddle_engine, clip_model>>

EngineNext ==
    \/ \E t \in Threads : init_paddle_check(t)
    \/ \E t \in Threads : init_paddle_lock(t)
    \/ \E t \in Threads : init_paddle_dcheck(t)
    \/ \E t \in Threads : init_paddle_try_ok(t)
    \/ \E t \in Threads : init_paddle_try_retry(t)
    \/ \E t \in Threads : init_paddle_try_fail(t)
    \/ \E t \in Threads : init_clip_check(t)
    \/ \E t \in Threads : init_clip_lock(t)
    \/ \E t \in Threads : init_clip_dcheck(t)
    \/ \E t \in Threads : init_clip_try_ok(t)
    \/ \E t \in Threads : init_clip_try_fail(t)

(***************************************************************************)
(* Values that travel through the parser: strings, dates, numbers          *)
(***************************************************************************)
\* A string is a sequence of characters; None and "" (both falsy) are <<>>.
NoStr == <<>>

\* Upper-case and lower-case forms of the letters (str.lower, str.upper).
CasePairs ==
    {<<"A","a">>, <<"B","b">>, <<"C","c">>, <<"D","d">>, <<"E","e">>, <<"F","f">>,
     <<"G","g">>, <<"H","h">>, <<"I","i">>, <<"J","j">>, <<"K","k">>, <<"L","l">>,
     <<"M","m">>, <<"N","n">>, <<"O","o">>, <<"P","p">>, <<"Q","q">>, <<"R","r">>,
     <<"S","s">>, <<"T","t">>, <<"U","u">>, <<"V","v">>, <<"W","w">>, <<"X","x">>,
     <<"Y","y">>, <<"Z","z">>, <<"É","é">>, <<"Ç","ç">>}
UpperLetters == {p[1] : p \in CasePairs}
LowerLetters == {p[2] : p \in CasePairs}
lower(c) == IF c \in UpperLetters THEN (CHOOSE p \in CasePairs : p[1] = c)[2] ELSE c
upper(c) == IF c \in LowerLetters THEN (CHOOSE p \in CasePairs : p[2] = c)[1] ELSE c
lower_str(s) == [i \in 1..Len(s) |-> lower(s[i])]

\* unicodedata.normalize("NFD", v) with the combining marks (category Mn)
\* dropped: an accented letter becomes its base letter.
AccentPairs == {<<"é","e">>, <<"É","E">>, <<"ç","c">>, <<"Ç","C">>}
strip_accent(c) ==
    IF \E p \in AccentPairs : p[1] = c
       THEN (CHOOSE p \in AccentPairs : p[1] = c)[2]
       ELSE c

Digits == {"0", "1", "2", "3", "4", "5", "6", "7", "8", "9"}
DigitVal == [c \in Digits |->
               CASE c = "0" -> 0 [] c = "1" -> 1 [] c = "2" -> 2 [] c = "3" -> 3
                 [] c = "4" -> 4 [] c = "5" -> 5 [] c = "6" -> 6 [] c = "7" -> 7
                 [] c = "8" -> 8 [] c = "9" -> 9]

\* A value in a numeric field: None, a number (in hundredths), or a string.
NoneV == [t |-> "none", v |-> 0, s |-> <<>>]
Num(c) == [t |-> "num", v |-> c, s |-> <<>>]
Str(chars) == [t |-> "str", v |-> 0, s |-> chars]

Abs(n) == IF n < 0 THEN -n ELSE n
Max0(n) == IF n < 0 THEN 0 ELSE n
MinOf(S) == CHOOSE n \in S : \A m \in S : n <= m
MaxOf(S) == CHOOSE n \in S : \A m \in S : n >= m

\* Python float(s) accepts, over the characters of the model, an optional
\* sign followed by digits with at most one decimal point and at least one
\* digit.
Unsigned(s) == IF Len(s) > 0 /\ s[1] = "-" THEN Tail(s) ELSE s
IsFloatLiteral(s) ==
    LET u == Unsigned(s) IN
        /\ \A i \in 1..Len(u) : u[i] \in Digits \cup {"."}
        /\ Cardinality({i \in 1..Len(u) : u[i] = "."}) <= 1
        /\ \E i \in 1..Len(u) : u[i] \in Digits

RECURSIVE DigitsVal(_)
DigitsVal(ds) ==
    IF ds = <<>> THEN 0
    ELSE 10 * DigitsVal(SubSeq(ds, 1, Len(ds) - 1)) + DigitVal[ds[Len(ds)]]

\* Digits after the decimal point of a float literal.
FracDigits(s) ==
    LET u == Unsigned(s)
        dots == {i \in 1..Len(u) : u[i] = "."}
    IN  IF dots = {} THEN <<>> ELSE SubSeq(u, MinOf(dots) + 1, Len(u))

\* round(float(s), 2) in hundredths, for a float literal s.  The third
\* decimal decides the rounding; the strings of the model hold no decimal
\* that lies on a rounding tie.
FloatHundredths(s) ==
    LET u == Unsigned(s)
        dots == {i \in 1..Len(u) : u[i] = "."}
        p == IF dots = {} THEN Len(u) + 1 ELSE MinOf(dots)
        fp == FracDigits(s)
        d(k) == IF k <= Len(fp) THEN DigitVal[fp[k]] ELSE 0
        mag == DigitsVal(SubSeq(u, 1, p - 1)) * 100 + d(1) * 10 + d(2)
               + (IF d(3) >= 5 THEN 1 ELSE 0)
    IN  IF Len(s) > 0 /\ s[1] = "-" THEN 0 - mag ELSE mag

\* Dates.  A date string is told by its shape: "YYYY-MM-DD" (iso), "A/B/YYYY"
\* with / - or . between the parts (abY), or text that holds no date (text).
NoDate == [fmt |-> "none", y |-> 0, a |-> 0, b |-> 0]
IsoDate(y, m, d) == [fmt |-> "iso", y |-> y, a |-> m, b |-> d]
AbyDate(a, b, y) == [fmt |-> "abY", y |-> y, a |-> a, b |-> b]
TextDate == [fmt |-> "text", y |-> 0, a |-> 0, b |-> 0]

\* datetime.now().year at the time of the run.
NowYear == 2026

DaysInMonth(y, m) ==
    IF m \in {4, 6, 9, 11} THEN 30
    ELSE IF m = 2 THEN (IF y % 4 = 0 /\ (y % 100 # 0 \/ y % 400 = 0) THEN 29 ELSE 28)
    ELSE 31

\* An OCR text, by what the validator's scans find in it: the date that
\* _scan_text_for_date picks and the vendor of the longest domain name of
\* DOMAIN_VENDOR_MAP that occurs in it.  The empty text holds neither.
OcrText(date, domainVendor) == [scan_date |-> date, domain_vendor |-> domainVendor]
(***************************************************************************)
(* services/receipt_parser.py: ReceiptPostProcessor                        *)
(***************************************************************************)
MATH_TOLERANCE == 15
MAX_TAX_RATIO_PCT == 50

\* OCR_NUM_FIXES
OCR_NUM_FIXES ==
    [c \in {"O", "o", "l", "I", "S", "B", "G", "Z", "§"} |->
        CASE c \in {"O", "o"} -> "0" [] c \in {"l", "I"} -> "1"
          [] c \in {"S", "§"} -> "5" [] c = "B" -> "8" [] c = "G" -> "6"
          [] c = "Z" -> "2"]

\* _to_float: max(0.0, float(v or 0)), 0.0 when float() raises.
_to_float(x) ==
    IF x.t = "num" THEN Max0(x.v)
    ELSE IF x.t = "str" /\ IsFloatLiteral(x.s) THEN Max0(FloatHundredths(x.s))
    ELSE 0

\* _fix_ocr_number_string: drop currency signs, blanks and commas, apply
\* OCR_NUM_FIXES, drop what is not a digit, a point or a minus sign, keep the
\* first and the last of more than two point-separated parts, then
\* round(float(result), 2); None when float() raises.
_fix_ocr_number_string(s) ==
    LET cleaned == SelectSeq(s, LAMBDA c : c \notin {"$", "€", "£", "¥", " ", ","})
        fixed == [i \in 1..Len(cleaned) |->
                    IF cleaned[i] \in DOMAIN OCR_NUM_FIXES
                       THEN OCR_NUM_FIXES[cleaned[i]] ELSE cleaned[i]]
        kept == SelectSeq(fixed, LAMBDA c : c \in Digits \cup {".", "-"})
        dots == {i \in 1..Len(kept) : kept[i] = "."}
        result == IF Cardinality(dots) > 1
                     THEN SubSeq(kept, 1, MinOf(dots) - 1) \o <<".">>
                          \o SubSeq(kept, MaxOf(dots) + 1, Len(kept))
                     ELSE kept
    IN  IF IsFloatLiteral(result) THEN Num(FloatHundredths(result)) ELSE NoneV

\* _fix_numeric_ocr_errors: the loop over the six numeric fields, from field
\* number i on.  A value float() accepts is left as it is (a string stays a
\* string); another string is repaired, or zeroed when it cannot be.
NumericFields == <<"total", "gst", "pst", "hst", "qst", "pre_tax">>
RECURSIVE fix_numeric_from(_, _, _)
fix_numeric_from(data, warnings, i) ==
    IF i > Len(NumericFields) THEN [data |-> data, warnings |-> warnings]
    ELSE LET field == NumericFields[i]
             raw_val == data[field]
         IN  IF raw_val.t # "str" \/ IsFloatLiteral(raw_val.s)
                THEN fix_numeric_from(data, warnings, i + 1)
             ELSE LET fixed == _fix_ocr_number_string(raw_val.s) IN
                  IF fixed # NoneV
                     THEN fix_numeric_from([data EXCEPT ![field] = fixed],
                                           Append(warnings, <<"OCR_FIX", field>>), i + 1)
                     ELSE fix_numeric_from([data EXCEPT ![field] = Num(0)],
                                           Append(warnings, <<"OCR_UNPARSEABLE", field>>), i + 1)

_fix_numeric_ocr_errors(data, warnings) == fix_numeric_from(data, warnings, 1)

\* _sanitize_tax_values: the loop over the tax fields, from field number i
\* on; total is read once, before the loop.
TaxFields == <<"gst", "pst", "hst", "qst">>
RECURSIVE sanitize_tax_from(_, _, _, _)
sanitize_tax_from(data, warnings, total, i) ==
    IF i > Len(TaxFields) THEN [data |-> data, warnings |-> warnings]
    ELSE LET field == TaxFields[i]
             val == _to_float(data[field])
         IN  IF val <= 0 THEN sanitize_tax_from(data, warnings, total, i + 1)
             ELSE IF total > 0 /\ val >= total
                THEN sanitize_tax_from([data EXCEPT ![field] = Num(0)],
                                       Append(warnings, <<"TAX_SANITY_ZEROED", field>>),
                                       total, i + 1)
             ELSE IF total > 0 /\ 100 * val > MAX_TAX_RATIO_PCT * total
                THEN sanitize_tax_from([data EXCEPT ![field] = Num(0)],
                                       Append(warnings, <<"TAX_SANITY_CAPPED", field>>),
                                       total, i + 1)
             ELSE sanitize_tax_from(data, warnings, total, i + 1)

_sanitize_tax_values(data, warnings) ==
    sanitize_tax_from(data, warnings, _to_float(data.total), 1)

\* _valid_date: a calendar date from 2000-01-01 to the end of next year.
_valid_date(iso) ==
    /\ iso.a \in 1..12
    /\ iso.b \in 1..DaysInMonth(iso.y, iso.a)
    /\ iso.y >= 2000 /\ iso.y <= NowYear + 1

\* _parse_date_string
_parse_date_string(s) ==
    IF s.fmt = "iso" THEN (IF _valid_date(s) THEN s ELSE NoDate)
    ELSE IF s.fmt = "abY"
       THEN LET iso == IF s.a > 12 THEN IsoDate(s.y, s.b, s.a)
                                   ELSE IsoDate(s.y, s.a, s.b)
            IN  IF _valid_date(iso) THEN iso ELSE NoDate
    ELSE NoDate

\* _scan_text_for_date
_scan_text_for_date(text) == text.scan_date

\* _normalise_date
_normalise_date(raw_date, ocr_text, warnings) ==
    LET iso == IF raw_date # NoDate THEN _parse_date_string(raw_date) ELSE NoDate
        w1 == IF raw_date # NoDate /\ iso = NoDate
                 THEN Append(warnings, <<"DATE_PARSE_FAILED", "date">>)
                 ELSE warnings
        scanned == _scan_text_for_date(ocr_text)
    IN  IF iso # NoDate THEN [date |-> iso, warnings |-> warnings]
        ELSE IF scanned # NoDate
           THEN [date |-> scanned, warnings |-> Append(w1, <<"DATE_FROM_OCR", "date">>)]
        ELSE [date |-> NoDate, warnings |-> Append(w1, <<"DATE_MISSING", "date">>)]
\* str.strip() on blanks.
RECURSIVE strip(_)
strip(s) ==
    IF s = <<>> THEN s
    ELSE IF s[1] = " " THEN strip(Tail(s))
    ELSE IF s[Len(s)] = " " THEN strip(SubSeq(s, 1, Len(s) - 1))
    ELSE s

\* re.sub(r"\s+", " ", v): a run of blanks becomes one blank.
collapse_blanks(s) ==
    LET keep == {i \in 1..Len(s) : ~(s[i] = " " /\ i > 1 /\ s[i - 1] = " ")}
        nth(k) == CHOOSE i \in keep : Cardinality({j \in keep : j < i}) = k - 1
    IN  [k \in 1..Cardinality(keep) |-> s[nth(k)]]

\* str.isupper(): a cased character, and none in lower case.
isupper(s) ==
    /\ \E i \in 1..Len(s) : s[i] \in UpperLetters
    /\ \A i \in 1..Len(s) : s[i] \notin LowerLetters

\* str.title(): a letter that starts a word in upper case, the others in lower.
title(s) ==
    [i \in 1..Len(s) |->
        IF i = 1 \/ s[i - 1] \notin UpperLetters \cup LowerLetters
           THEN upper(s[i]) ELSE lower(s[i])]

\* The placeholder patterns of _clean_vendor, matched whole and without
\* regard to case: receipt, reçu, facture, tax invoice, digits only, unknown,
\* n/a or na, none.
PlaceholderNames ==
    {<<"r","e","c","e","i","p","t">>, <<"r","e","ç","u">>,
     <<"f","a","c","t","u","r","e">>,
     <<"t","a","x"," ","i","n","v","o","i","c","e">>,
     <<"u","n","k","n","o","w","n">>, <<"n","/","a">>, <<"n","a">>,
     <<"n","o","n","e">>}
IsPlaceholder(v) ==
    \/ lower_str(v) \in PlaceholderNames
    \/ Len(v) > 0 /\ \A i \in 1..Len(v) : v[i] \in Digits

\* _clean_vendor
_clean_vendor(vendor) ==
    IF vendor = NoStr THEN NoStr
    ELSE LET v == strip(vendor) IN
         IF IsPlaceholder(v) THEN NoStr
         ELSE LET w == collapse_blanks(v)
                  x == IF isupper(w) /\ Len(w) > 3 THEN title(w) ELSE w
                  y == [i \in 1..Len(x) |-> strip_accent(x[i])]
              IN  SubSeq(y, 1, IF Len(y) < 200 THEN Len(y) ELSE 200)

\* _infer_vendor_from_domain
_infer_vendor_from_domain(text) == text.domain_vendor

\* Doubles.  abs(x - y) > tol, and its negation abs(x - y) <= tol, computed
\* on the doubles nearest to the amounts a, b and to tol (all in hundredths).
\* The subtraction of two doubles is exact to one rounding, so the outcome
\* differs from that of the decimal amounts only when they differ by exactly
\* tol; FloatDiffAbove lists, for the amounts of the model, the pairs
\* <<larger, smaller>> whose double difference lies above the double of their
\* decimal difference, and FloatDiffExact those where it does not.
FloatDiffAbove == {<<214, 114>>, <<403, 203>>, <<1015, 1000>>}
FloatDiffExact ==
    {<<1100, 1000>>, <<1850, 1650>>, <<1850, 1835>>, <<2050, 1850>>, <<2050, 2035>>}
FloatDiffIsAbove ==
    [p \in FloatDiffAbove \cup FloatDiffExact |-> p \in FloatDiffAbove]
float_diff_gt(a, b, tol) ==
    IF Abs(a - b) # tol THEN Abs(a - b) > tol
    ELSE FloatDiffIsAbove[<<IF a > b THEN a ELSE b, IF a > b THEN b ELSE a>>]

\* sum of the four taxes: round(gst + pst + hst + qst, 2)
tax_sum_of(data) ==
    _to_float(data.gst) + _to_float(data.pst) + _to_float(data.hst) + _to_float(data.qst)

\* The three cases of _validate_math with the inferences left unrecorded: the
\* validator that the warnings of line 363 and 366 tell the real one from.
validate_math_cases_silent(data, warnings, total, pre_tax, tax_sum) ==
    IF total > 0 /\ pre_tax > 0
       THEN IF ~float_diff_gt(pre_tax + tax_sum, total, MATH_TOLERANCE)
               THEN [data |-> data, warnings |-> warnings]
            ELSE IF ~float_diff_gt(pre_tax + tax_sum, total, 200)
               THEN [data |-> [data EXCEPT !.pre_tax = Num(total - tax_sum)],
                     warnings |-> Append(warnings, <<"MATH_ADJUSTED_PRETAX", "pre_tax">>)]
            ELSE [data |-> data,
                  warnings |-> Append(warnings, <<"MATH_MISMATCH", "pre_tax">>)]
    ELSE IF total > 0 /\ pre_tax = 0 /\ tax_sum > 0
       THEN IF 0 < total - tax_sum /\ total - tax_sum < total
               THEN [data |-> [data EXCEPT !.pre_tax = Num(total - tax_sum)],
                     warnings |-> warnings]
               ELSE [data |-> data, warnings |-> warnings]
    ELSE IF pre_tax > 0 /\ total = 0
       THEN [data |-> [data EXCEPT !.total = Num(pre_tax + tax_sum)],
             warnings |-> warnings]
    ELSE [data |-> data, warnings |-> warnings]

\* _validate_math, line 348-367: the three cases, on the amounts read at
\* line 340-346.
validate_math_cases(data, warnings, total, pre_tax, tax_sum) ==
    IF total > 0 /\ pre_tax > 0
       THEN IF ~float_diff_gt(pre_tax + tax_sum, total, MATH_TOLERANCE)
               THEN [data |-> data, warnings |-> warnings]
            ELSE IF ~float_diff_gt(pre_tax + tax_sum, total, 200)
               THEN [data |-> [data EXCEPT !.pre_tax = Num(total - tax_sum)],
                     warnings |-> Append(warnings, <<"MATH_ADJUSTED_PRETAX", "pre_tax">>)]
            ELSE [data |-> data,
                  warnings |-> Append(warnings, <<"MATH_MISMATCH", "pre_tax">>)]
    ELSE IF total > 0 /\ pre_tax = 0 /\ tax_sum > 0
       THEN IF 0 < total - tax_sum /\ total - tax_sum < total
               THEN [data |-> [data EXCEPT !.pre_tax = Num(total - tax_sum)],
                     warnings |-> Append(warnings, <<"MATH_INFERRED_PRETAX", "pre_tax">>)]
               ELSE [data |-> data, warnings |-> warnings]
    ELSE IF pre_tax > 0 /\ total = 0
       THEN [data |-> [data EXCEPT !.total = Num(pre_tax + tax_sum)],
             warnings |-> Append(warnings, <<"MATH_INFERRED_TOTAL", "total">>)]
    ELSE [data |-> data, warnings |-> warnings]

\* _validate_math, line 369-370: a total that is still not positive.
validate_math_total(r) ==
    IF _to_float(r.data.total) <= 0
       THEN [data |-> r.data,
             warnings |-> Append(r.warnings, <<"MATH_MISSING_TOTAL", "total">>)]
       ELSE r

\* _validate_math
_validate_math(data, warnings) ==
    validate_math_total(
        validate_math_cases(data, warnings, _to_float(data.total),
                            _to_float(data.pre_tax), tax_sum_of(data)))

\* The penalties of _adjust_confidence: the first key that the warning
\* starts with, 0 when none does.
penalty_of_mismatch_free(code) ==
    CASE code = "DATE_MISSING" -> 15
      [] code = "DATE_PARSE_FAILED" -> 10
      [] code = "MATH_MISSING_TOTAL" -> 25
      [] code = "OCR_UNPARSEABLE" -> 15
      [] code \in {"TAX_SANITY_ZEROED", "TAX_SANITY_CAPPED"} -> 10
      [] OTHER -> 0
penalty_of(code) ==
    CASE code = "DATE_MISSING" -> 15
      [] code = "DATE_PARSE_FAILED" -> 10
      [] code = "MATH_MISMATCH" -> 20
      [] code = "MATH_MISSING_TOTAL" -> 25
      [] code = "OCR_UNPARSEABLE" -> 15
      [] code \in {"TAX_SANITY_ZEROED", "TAX_SANITY_CAPPED"} -> 10
      [] OTHER -> 0

\* The loop of line 386-390 over the warnings from the i-th on.
penalties_once_per_key(warnings, i) ==
    (IF \E j \in i..Len(warnings) : warnings[j][1] = "DATE_MISSING" THEN 15 ELSE 0)
    + (IF \E j \in i..Len(warnings) : warnings[j][1] = "DATE_PARSE_FAILED" THEN 10 ELSE 0)
    + (IF \E j \in i..Len(warnings) : warnings[j][1] = "MATH_MISMATCH" THEN 20 ELSE 0)
    + (IF \E j \in i..Len(warnings) : warnings[j][1] = "MATH_MISSING_TOTAL" THEN 25 ELSE 0)
    + (IF \E j \in i..Len(warnings) : warnings[j][1] = "OCR_UNPARSEABLE" THEN 15 ELSE 0)
    + (IF \E j \in i..Len(warnings) :
             warnings[j][1] \in {"TAX_SANITY_ZEROED", "TAX_SANITY_CAPPED"} THEN 10 ELSE 0)
RECURSIVE penalties_from(_, _)
penalties_from(warnings, i) ==
    IF i > Len(warnings) THEN 0
    ELSE penalty_of(warnings[i][1]) + penalties_from(warnings, i + 1)

\* _adjust_confidence without the clamp of line 396.
_adjust_confidence_unclamped(data, warnings) ==
    data.confidence - penalties_from(warnings, 1)
    + (IF data.vendor # NoStr THEN 5 ELSE 0)
    + (IF data.date # NoDate THEN 5 ELSE 0)
    + (IF _to_float(data.total) > 0 THEN 5 ELSE 0)
    + (IF \E t \in {"gst", "hst", "qst"} : _to_float(data[t]) > 0 THEN 5 ELSE 0)

\* _adjust_confidence: the base less one penalty for each warning, plus 0.05
\* for a vendor, a date, a total and a gst, hst or qst; clamped to [0, 1].
_adjust_confidence(data, warnings) ==
    LET base == data.confidence - penalties_from(warnings, 1)
                + (IF data.vendor # NoStr THEN 5 ELSE 0)
                + (IF data.date # NoDate THEN 5 ELSE 0)
                + (IF _to_float(data.total) > 0 THEN 5 ELSE 0)
                + (IF \E t \in {"gst", "hst", "qst"} : _to_float(data[t]) > 0 THEN 5 ELSE 0)
    IN  IF base < 0 THEN 0 ELSE IF base > 100 THEN 100 ELSE base

has_warning(warnings, code) == \E i \in 1..Len(warnings) : warnings[i][1] = code

\* process, line 93: result["date"] = _normalise_date(...), on the data and
\* the warnings that the two sanitising steps left.
process_date(r, ocr_text) ==
    [data |-> r.data, nd |-> _normalise_date(r.data.date, ocr_text, r.warnings)]

\* process, line 94-97: the vendor is cleaned and, when none is left, inferred
\* from a domain name in the text.
process_vendor(cleaned, ocr_text) ==
    IF cleaned = NoStr THEN _infer_vendor_from_domain(ocr_text) ELSE cleaned

\* process, line 94-98: the vendor, then _validate_math.
process_math(r, ocr_text) ==
    _validate_math([r.data EXCEPT !.date = r.nd.date,
                                  !.vendor = process_vendor(_clean_vendor(r.data.vendor),
                                                            ocr_text)],
                   r.nd.warnings)

\* process, line 99-101: confidence, _warnings and _math_valid.
process_finish(r) ==
    [warnings |-> r.warnings,
     math_valid |-> ~has_warning(r.warnings, "MATH_MISMATCH")]
    @@ [r.data EXCEPT !.confidence = _adjust_confidence(r.data, r.warnings)]

\* process: the record that the five steps are applied to, stage by stage.
process_sanitized(r) == _sanitize_tax_values(r.data, r.warnings)

\* process: a result that is not a receipt is returned as it came.
process(raw, ocr_text) ==
    IF ~raw.is_receipt THEN raw
    ELSE process_finish(
             process_math(
                 process_date(
                     process_sanitized(_fix_numeric_ocr_errors(raw, <<>>)),
                     ocr_text),
                 ocr_text))
(***************************************************************************)
(* A call of ReceiptPostProcessor.process                                  *)
(***************************************************************************)
\* Characters of the strings given in a numeric field: digits, the point,
\* the minus sign, a letter that OCR puts for a digit, a currency sign.
OcrAlphabet == {"0", "1", ".", "-", "O", "$"}

\* The strings of up to MaxStrLen characters.  A string that float() accepts
\* is left unrepaired and unrounded by the validator, so those of more than
\* two decimals, which are no amounts in hundredths, are left out.
RawStrings ==
    {s \in UNION {[1..n -> OcrAlphabet] : n \in 1..MaxStrLen} :
        IsFloatLiteral(s) => Len(FracDigits(s)) <= 2}

\* Vendor names.
IGA == <<"I", "G", "A">>
Metro == <<"M", "e", "t", "r", "o">>
METRO == <<"M", "E", "T", "R", "O">>
Facture_acute == <<"F", "a", "c", "t", "u", "r", "é">>
Facture == <<"F", "a", "c", "t", "u", "r", "e">>
Unknown == <<"U", "n", "k", "n", "o", "w", "n">>
CafeOle == <<" ", "C", "A", "F", "É", " ", " ", "o", "l", "é">>
Digits123 == <<"1", "2", "3">>

\* Inputs whose numeric fields hold numbers of either sign, None and strings.
RawNumericInputs ==
    [is_receipt : {TRUE},
     date : {IsoDate(2024, 3, 10)},
     vendor : {IGA},
     total : {NoneV, Num(0), Num(200), Num(1000)} \cup {Str(s) : s \in RawStrings},
     gst : {Num(0), Num(100), Num(0 - 100), Str(<<"-", "1", ".", "O">>)},
     qst : {Num(0), Num(100)},
     pst : {Num(0), Num(100)},
     hst : {Num(0)},
     pre_tax : {NoneV, Num(0), Num(50), Num(5000)},
     confidence : {50}]

\* Inputs whose vendor and date take the shapes that the cleanup and the
\* normalisation tell apart; the numeric fields hold numbers >= 0.
RawTextInputs ==
    [is_receipt : BOOLEAN,
     date : {NoDate, IsoDate(2024, 3, 10), IsoDate(2024, 2, 30), IsoDate(2031, 1, 5),
             AbyDate(13, 3, 2024), AbyDate(3, 13, 2024), AbyDate(5, 4, 2024), TextDate},
     vendor : {NoStr, IGA, Metro, METRO, Facture_acute, Facture, Unknown, CafeOle,
               Digits123},
     total : {Num(0), Num(1000)},
     gst : {Num(0), Num(50)},
     qst : {Num(0)},
     pst : {Num(0)},
     hst : {Num(0)},
     pre_tax : {Num(0), Num(950)},
     confidence : {50, 90}]

OcrTexts ==
    {OcrText(d, v) : d \in {NoDate, IsoDate(2024, 3, 9)}, v \in {NoStr, Metro}}

\* The state when no call of process is modelled.
ValidateIdle ==
    /\ vraw = <<>>
    /\ vocr = <<>>
    /\ vout = <<>>
    /\ vpc = "idle"

ValidateInit ==
    /\ \/ vraw \in RawNumericInputs /\ vocr = OcrText(NoDate, NoStr)
       \/ vraw \in RawTextInputs /\ vocr \in OcrTexts
    /\ vout = <<>>
    /\ vpc = "ready"

\* result = process(raw, ocr_text)
process_call ==
    /\ vpc = "ready"
    /\ vout' = process(vraw, vocr)
    /\ vpc' = "done"
    /\ UNCHANGED <<notValidate, vraw, vocr>>

ValidateNext == process_call
(***************************************************************************)
(* services/ollama.py: OllamaClient, the resolver of model and             *)
(* deterministic results                                                   *)
(***************************************************************************)
\* sf of _sanitize: max(0.0, round(float(v or 0), 2)), default when float()
\* raises.
sf(v, default) ==
    IF v.t = "num" THEN Max0(v.v)
    ELSE IF v.t = "none" \/ v.s = <<>> THEN 0
    ELSE IF IsFloatLiteral(v.s) THEN Max0(FloatHundredths(v.s))
    ELSE default

\* _sanitize: the eleven keys built from the parsed JSON object (currency is
\* not modelled).
_sanitize(data) ==
    [is_receipt |-> data.is_receipt,
     date |-> data.date,
     vendor |-> strip(data.vendor),
     total |-> Num(sf(data.total, 0)),
     gst |-> Num(sf(data.gst, 0)),
     qst |-> Num(sf(data.qst, 0)),
     pst |-> Num(sf(data.pst, 0)),
     hst |-> Num(sf(data.hst, 0)),
     pre_tax |-> Num(sf(data.pre_tax, 0)),
     confidence |-> IF sf(data.confidence, 50) > 100 THEN 100 ELSE sf(data.confidence, 50)]

\* Truth value of a numeric field: None and 0.0 are falsy.
Truthy(x) == x.t # "none" /\ x # Num(0)

\* _merge_with_deterministic, line 432-435: a tax or the pre-tax amount of
\* the pre-scan fills in where the model's is empty.
merge_amount(llm_val, det_val) ==
    IF det_val.t # "none" /\ ~Truthy(llm_val) THEN det_val ELSE llm_val

\* _merge_with_deterministic, line 436-442: the total.
merge_total(llm_total, det_total) ==
    IF Truthy(det_total) /\ Truthy(llm_total)
          /\ float_diff_gt(det_total.v, llm_total.v, 100)
       THEN det_total
    ELSE IF Truthy(det_total) /\ ~Truthy(llm_total) THEN det_total
    ELSE llm_total

\* _merge_with_deterministic, line 443-446: vendor and date of the pre-scan
\* are used where the model's is empty.
merge_vendor(llm_vendor, det_vendor) ==
    IF det_vendor # NoStr /\ llm_vendor = NoStr THEN det_vendor ELSE llm_vendor
merge_date(llm_date, det_date) ==
    IF det_date # NoDate /\ llm_date = NoDate THEN det_date ELSE llm_date

\* _merge_with_deterministic
_merge_with_deterministic(llm, det) ==
    [llm EXCEPT !.gst = merge_amount(llm.gst, det.gst),
                !.qst = merge_amount(llm.qst, det.qst),
                !.pst = merge_amount(llm.pst, det.pst),
                !.hst = merge_amount(llm.hst, det.hst),
                !.pre_tax = merge_amount(llm.pre_tax, det.pre_tax),
                !.total = merge_total(llm.total, det.total),
                !.vendor = merge_vendor(llm.vendor, det.vendor),
                !.date = merge_date(llm.date, det.date)]

\* det.get(field) or 0.0
or_zero(x) == IF Truthy(x) THEN x ELSE Num(0)

\* The base dict that _build_from_deterministic and the path without a model
\* call build from the pre-scan, at the given confidence.
det_base(det, confidence) ==
    [is_receipt |-> TRUE,
     date |-> det.date,
     vendor |-> det.vendor,
     total |-> or_zero(det.total),
     gst |-> or_zero(det.gst),
     qst |-> or_zero(det.qst),
     pst |-> or_zero(det.pst),
     hst |-> or_zero(det.hst),
     pre_tax |-> or_zero(det.pre_tax),
     confidence |-> confidence]

\* _build_from_deterministic (OllamaClient and PaddleOCRClient alike)
DEGRADED_CONFIDENCE == 40
_build_from_deterministic_undegraded(det, ocr_text) ==
    process(det_base(det, 75), ocr_text)
_build_from_deterministic(det, ocr_text) ==
    process(det_base(det, DEGRADED_CONFIDENCE), ocr_text)
(***************************************************************************)
(* A merge: parse_receipt, line 415-418                                    *)
(***************************************************************************)
IsoA == IsoDate(2024, 3, 10)
IsoB == IsoDate(2024, 4, 1)

\* JSON objects that the model answered with.
MergeParsed ==
    [is_receipt : {TRUE},
     date : {NoDate, IsoA, IsoB},
     vendor : {NoStr, IGA, Metro},
     total : {NoneV, Num(0), Num(114), Num(1000), Num(1100), Num(1101), Num(2000),
              Str(<<"$", "1", "0">>)},
     gst : {Num(0), Num(50)},
     qst : {Num(0)},
     pst : {Num(0)},
     hst : {Num(0)},
     pre_tax : {Num(0), Num(900)},
     confidence : {Num(90)}]

\* Results of the deterministic pre-scan: a field is None or, for an amount,
\* positive.
MergeDet ==
    [date : {NoDate, IsoA},
     vendor : {NoStr, IGA},
     total : {NoneV, Num(214), Num(1000)},
     gst : {NoneV, Num(60)},
     qst : {NoneV},
     pst : {NoneV},
     hst : {NoneV},
     pre_tax : {NoneV, Num(950)}]

MergeIdle ==
    /\ mparsed = <<>>
    /\ mdet = <<>>
    /\ mllm = <<>>
    /\ mout = <<>>
    /\ mpc = "idle"

MergeInit ==
    /\ mparsed \in MergeParsed
    /\ mdet \in MergeDet
    /\ mllm = <<>>
    /\ mout = <<>>
    /\ mpc = "parsed"

\* parse_receipt, line 415: sanitized = self._sanitize(parsed)
sanitize_call ==
    /\ mpc = "parsed"
    /\ mllm' = _sanitize(mparsed)
    /\ mpc' = "sanitized"
    /\ UNCHANGED <<notMerge, mparsed, mdet, mout>>

\* parse_receipt, line 418: sanitized = self._merge_with_deterministic(sanitized, det)
merge_call ==
    /\ mpc = "sanitized"
    /\ mout' = _merge_with_deterministic(mllm, mdet)
    /\ mpc' = "merged"
    /\ UNCHANGED <<notMerge, mparsed, mdet, mllm>>

MergeNext ==
    \/ sanitize_call
    \/ merge_call
(***************************************************************************)
(* A call of ReceiptPostProcessor.process on amounts: the arithmetic       *)
(* validation and the confidence                                           *)
(***************************************************************************)
\* Inputs whose numeric fields hold amounts >= 0: sums within the tolerance,
\* at it, within the adjustment range, at its end and beyond; taxes within
\* and above the share of the total that the tax sanity accepts; a pre_tax
\* below a tax, with and without a total.
MathInputs ==
    [is_receipt : {TRUE},
     date : {NoDate, IsoA},
     vendor : {IGA},
     total : {Num(0), Num(100), Num(403), Num(1015), Num(1850), Num(2050), Num(5000)},
     gst : {Num(0), Num(89), Num(200)},
     qst : {Num(0), Num(178)},
     pst : {Num(0), Num(100)},
     hst : {Num(0)},
     pre_tax : {Num(0), Num(100), Num(203), Num(1000), Num(1500), Num(1650), Num(1780), Num(1835)},
     confidence : {50, 90}]

MathIdle ==
    /\ xraw = <<>>
    /\ xpre = <<>>
    /\ xval = <<>>
    /\ xout = <<>>
    /\ xpc = "idle"

MathInit ==
    /\ xraw \in MathInputs
    /\ xpre = <<>>
    /\ xval = <<>>
    /\ xout = <<>>
    /\ xpc = "ready"

\* process, line 91-101, stage by stage: the data and the warnings that
\* _validate_math is called on, what it returns, and the result.
process_math_call ==
    /\ xpc = "ready"
    /\ xpre' = process_date(process_sanitized(_fix_numeric_ocr_errors(xraw, <<>>)),
                            OcrText(NoDate, NoStr))
    /\ xval' = process_math(xpre', OcrText(NoDate, NoStr))
    /\ xout' = process_finish(xval')
    /\ xpc' = "done"
    /\ UNCHANGED <<notMath, xraw>>

MathNext == process_math_call
(***************************************************************************)
(* services/paddle_ocr.py: PaddleOCRClient.parse_receipt, and              *)
(* services/ollama.py: OllamaClient.parse_receipt                          *)
(***************************************************************************)
\* Logo hints that stand for "no logo".
LogoUnknown == <<"u", "n", "k", "n", "o", "w", "n">>
LogoNotApplicable ==
    <<"n", "o", "t", " ", "a", "p", "p", "l", "i", "c", "a", "b", "l", "e">>
LogoNotIdentified ==
    <<"n", "o", "t", " ", "i", "d", "e", "n", "t", "i", "f", "i", "e", "d">>

\* parse_receipt, line 516-523 (389-392 in ollama.py): a usable logo hint
\* becomes the vendor of a pre-scan that found none.
apply_logo_hint(det, logo_hint) ==
    IF /\ logo_hint # NoStr
       /\ logo_hint \notin {LogoUnknown, LogoNotApplicable, LogoNotIdentified}
       /\ det.vendor = NoStr
       THEN [det EXCEPT !.vendor = logo_hint]
       ELSE det

\* PaddleOCRClient.parse_receipt, line 526-533: vendor, date and total found.
det_sufficient_never(det) == FALSE
det_sufficient(det) == det.vendor # NoStr /\ det.date # NoDate /\ Truthy(det.total)

\* line 529-531
has_tax(det) == \E t \in {"gst", "qst", "pst", "hst"} : Truthy(det[t])

\* line 538-551: the result built without a model call.
deterministic_result(det, ocr_text) ==
    process(det_base(det, IF has_tax(det) THEN 85 ELSE 75), ocr_text)

\* line 509 (384 in ollama.py)
TextTooShort == [is_receipt |-> FALSE, confidence |-> 0, error |-> "text_too_short"]

\* OllamaClient.parse_receipt, line 422-424: the fields still missing.
missing_of(post) ==
    (IF post.vendor = NoStr THEN {"vendor"} ELSE {})
    \cup (IF post.date = NoDate THEN {"date"} ELSE {})
    \cup (IF Truthy(post.total) THEN {} ELSE {"total"})

\* line 422-424: a follow-up prompt is due.
second_pass_due(post) == post.confidence < 65 /\ missing_of(post) # {}

\* A value that a JSON answer gives for a key is None (null, or no such key).
IsNone(f, val) == IF f = "vendor" THEN val = NoStr
                  ELSE IF f = "date" THEN val = NoDate
                  ELSE val.t = "none"

\* _second_pass, line 477-481: the answer is written into the missing fields
\* that it gives.
second_pass_patch(first, patch, missing) ==
    [f \in DOMAIN first |->
        IF f \in missing /\ ~IsNone(f, patch[f]) THEN patch[f] ELSE first[f]]

\* _second_pass, line 482: the patched result is sanitized and processed
\* again; its confidence is the float that the first processing left.
second_pass_result(result, ocr_text) ==
    process(_sanitize([result EXCEPT !.confidence = Num(@)]), ocr_text)

\* The answers of the model to the parse prompt and to the correction
\* prompt: text from which _extract_json gets nothing (also the "" that
\* _generate returns when the call fails), JSON that is no object, or an
\* object.  The confidence that the model gives is a number inside or outside
\* [0, 1], or a string that float() rejects.
ParsedObjects ==
    [is_receipt : BOOLEAN,
     date : {NoDate, IsoB},
     vendor : {NoStr, Metro, Facture_acute},
     total : {Num(0), Num(1000)},
     gst : {Num(0)},
     qst : {Num(0)},
     pst : {Num(0)},
     hst : {Num(0)},
     pre_tax : {Num(0)},
     confidence : {Num(50), Num(90), Num(0 - 20), Num(250), Str(<<"$">>)}]
Answers ==
    {[kind |-> "unparseable", obj |-> <<>>], [kind |-> "not_object", obj |-> <<>>]}
    \cup {[kind |-> "object", obj |-> o] : o \in ParsedObjects}

\* The answers to the follow-up prompt: nothing or an empty value (falsy), a
\* non-empty JSON value that is no object, or an object.
PatchObjects ==
    [vendor : {NoStr, IGA},
     date : {NoDate, IsoB},
     total : {NoneV, Num(1000)}]
PatchAnswers ==
    {[kind |-> "empty", obj |-> <<>>], [kind |-> "not_object", obj |-> <<>>]}
    \cup {[kind |-> "object", obj |-> o] : o \in PatchObjects}

\* Results of the deterministic pre-scan of the text.
ParseDet ==
    [date : {NoDate, IsoA},
     vendor : {NoStr, IGA},
     total : {NoneV, Num(1000)},
     gst : {NoneV, Num(50)},
     qst : {NoneV},
     pst : {NoneV},
     hst : {NoneV},
     pre_tax : {NoneV}]

LogoHints == {NoStr, LogoUnknown, Metro}

ParseIdle ==
    /\ pshort = FALSE
    /\ ptext = <<>>
    /\ pdet0 = <<>>
    /\ plogo = <<>>
    /\ pdet = <<>>
    /\ pprompts = <<>>
    /\ pparsed = <<>>
    /\ ppost = <<>>
    /\ ppatched = <<>>
    /\ pres = <<>>
    /\ ppath = "none"
    /\ ppc = "idle"

ParseInit ==
    /\ pshort \in BOOLEAN
    /\ ptext \in {OcrText(d, NoStr) : d \in {NoDate, IsoA}}
    /\ pdet0 \in ParseDet
    /\ plogo \in LogoHints
    /\ pshort => (ptext = OcrText(NoDate, NoStr) /\ plogo = NoStr
                  /\ \A f \in DOMAIN pdet0 : IsNone(f, pdet0[f]))
    /\ pdet = <<>>
    /\ pprompts = <<>>
    /\ pparsed = <<>>
    /\ ppost = <<>>
    /\ ppatched = <<>>
    /\ pres = <<>>
    /\ ppath = "none"
    /\ ppc = "call"

\* PaddleOCRClient.parse_receipt, line 508-551: a text that is too short, the
\* pre-scan and the logo hint, and the result without a model call when
\* vendor, date and total are there.
paddle_parse_receipt ==
    /\ ppc = "call"
    /\ pdet' = IF pshort THEN pdet ELSE apply_logo_hint(pdet0, plogo)
    /\ IF pshort
          THEN pres' = TextTooShort /\ ppath' = "text_too_short" /\ ppc' = "done"
       ELSE IF det_sufficient(pdet')
          THEN /\ pres' = deterministic_result(pdet', ptext)
               /\ ppath' = "deterministic" /\ ppc' = "done"
       ELSE pres' = pres /\ ppath' = ppath /\ ppc' = "ollama"
    /\ UNCHANGED <<notParse, pshort, ptext, pdet0, plogo, pprompts, pparsed, ppost, ppatched>>

\* PaddleOCRClient.parse_receipt, line 555: _get_ollama() raises.
paddle_get_ollama_raises ==
    /\ ppc = "ollama"
    /\ ppc' = "raised"
    /\ UNCHANGED <<notParse, pshort, ptext, pdet0, plogo, pdet, pprompts, pparsed, ppost,
                   ppatched, pres, ppath>>

\* OllamaClient.parse_receipt, line 383-404 and 415: the length check and the
\* pre-scan again (with the same outcome), the parse prompt, _extract_json;
\* _sanitize raises on an answer that is no object.
ollama_generate ==
    /\ ppc = "ollama"
    /\ pprompts' = Append(pprompts, "parse")
    /\ \E r \in Answers :
          /\ pparsed' = IF r.kind = "object" THEN r.obj ELSE pparsed
          /\ ppc' = CASE r.kind = "unparseable" -> "retry"
                      [] r.kind = "object" -> "merge"
                      [] r.kind = "not_object" -> "raised"
    /\ UNCHANGED <<notParse, pshort, ptext, pdet0, plogo, pdet, ppost, ppatched, pres, ppath>>

\* line 406-409 and 415: the one correction prompt.
ollama_generate_retry ==
    /\ ppc = "retry"
    /\ pprompts' = Append(pprompts, "correction")
    /\ \E r \in Answers :
          /\ pparsed' = IF r.kind = "object" THEN r.obj ELSE pparsed
          /\ ppc' = CASE r.kind = "unparseable" -> "degrade"
                      [] r.kind = "object" -> "merge"
                      [] r.kind = "not_object" -> "raised"
    /\ UNCHANGED <<notParse, pshort, ptext, pdet0, plogo, pdet, ppost, ppatched, pres, ppath>>

\* line 411-413: return self._build_from_deterministic(det, ocr_text)
ollama_degrade ==
    /\ ppc = "degrade"
    /\ pres' = _build_from_deterministic(pdet, ptext)
    /\ ppath' = "degraded"
    /\ ppc' = "done"
    /\ UNCHANGED <<notParse, pshort, ptext, pdet0, plogo, pdet, pprompts, pparsed, ppost,
                   ppatched>>

\* line 415-428: sanitize, merge, process; the result is returned unless a
\* follow-up prompt is due.
ollama_merge_process ==
    /\ ppc = "merge"
    /\ ppost' = process(_merge_with_deterministic(_sanitize(pparsed), pdet), ptext)
    /\ IF second_pass_due(ppost')
          THEN pres' = pres /\ ppath' = ppath /\ ppc' = "second_pass"
          ELSE pres' = ppost' /\ ppath' = "model" /\ ppc' = "done"
    /\ UNCHANGED <<notParse, pshort, ptext, pdet0, plogo, pdet, pprompts, pparsed, ppatched>>

\* _second_pass, line 459-482: the follow-up prompt; a falsy answer returns
\* the first result, patch.get raises on a non-empty answer that is no object.
ollama_second_pass ==
    /\ ppc = "second_pass"
    /\ pprompts' = Append(pprompts, "followup")
    /\ \E r \in PatchAnswers :
          \/ /\ r.kind = "empty"
             /\ pres' = ppost /\ ppath' = "model" /\ ppc' = "done"
             /\ ppatched' = ppatched
          \/ /\ r.kind = "not_object"
             /\ pres' = pres /\ ppath' = ppath /\ ppc' = "raised"
             /\ ppatched' = ppatched
          \/ /\ r.kind = "object"
             /\ ppatched' = second_pass_patch(ppost, r.obj, missing_of(ppost))
             /\ pres' = second_pass_result(ppatched', ptext)
             /\ ppath' = "second_pass" /\ ppc' = "done"
    /\ UNCHANGED <<notParse, pshort, ptext, pdet0, plogo, pdet, pparsed, ppost>>

\* PaddleOCRClient.parse_receipt, line 563-566: an exception of the model
\* path ends in _build_from_deterministic.
paddle_except ==
    /\ ppc = "raised"
    /\ pres' = _build_from_deterministic(pdet, ptext)
    /\ ppath' = "exception"
    /\ ppc' = "done"
    /\ UNCHANGED <<notParse, pshort, ptext, pdet0, plogo, pdet, pprompts, pparsed, ppost,
                   ppatched>>

ParseNext ==
    \/ paddle_parse_receipt
    \/ paddle_get_ollama_raises
    \/ ollama_generate
    \/ ollama_generate_retry
    \/ ollama_degrade
    \/ ollama_merge_process
    \/ ollama_second_pass
    \/ paddle_except
(***************************************************************************)
(* services/deterministic_parser.py: DeterministicParser.parse on receipt  *)
(* texts, and PaddleOCRClient.parse_receipt on what it finds               *)
(***************************************************************************)
MIN_OCR_LENGTH == 40

\* The lines that the receipt texts are made of.
\*   "iga"       IGA
\*   "filler"    Bienvenue
\*   "item"      PAIN 3,99
\*   "date"      2024-03-10 14:32
\*   "subtotal"  SOUS-TOTAL 41,53
\*   "tps"       TPS 2,08
\*   "tvq"       TVQ 4,14
\*   "total"     TOTAL 47,75
\*   "total2"    TOTAL 50,00
\*   "balance"   Solde 20,00
\*   "grandtotal" GRAND TOTAL 52,00
\*   "billdate"  Bill Date: 2025-02-01
\*   "nextbill"  Next Bill Date: 2025-03-01
\*   "duedate"   Due Date: 2025-03-15 10:00
\*   "plaindate" 2025-01-15
Bienvenue == <<"B", "i", "e", "n", "v", "e", "n", "u", "e">>

\* len(line)
LineLen(line) ==
    CASE line = "iga" -> 3
      [] line \in {"filler", "item"} -> 9
      [] line \in {"date", "subtotal"} -> 16
      [] line \in {"tps", "tvq"} -> 8
      [] line \in {"total", "total2", "balance"} -> 11
      [] line = "grandtotal" -> 17
      [] line = "billdate" -> 21
      [] line \in {"nextbill", "duedate"} -> 26
      [] line = "plaindate" -> 10

\* _parse_amount(line): the first amount that AMOUNT_RE finds, in cents; the
\* decimal comma is read as a point.
_parse_amount(line) ==
    CASE line = "item" -> Num(399)
      [] line = "subtotal" -> Num(4153)
      [] line = "tps" -> Num(208)
      [] line = "tvq" -> Num(414)
      [] line = "total" -> Num(4775)
      [] line = "total2" -> Num(5000)
      [] line = "balance" -> Num(2000)
      [] line = "grandtotal" -> Num(5200)
      [] OTHER -> NoneV

\* LABEL_PATTERNS: the fields whose patterns are found in the line, each with
\* the priority of the pattern.  "total" is found inside "sous-total" too.
LabelsOf(line) ==
    CASE line = "subtotal" -> {<<"total", 10>>, <<"pre_tax", 8>>}
      [] line \in {"total", "total2"} -> {<<"total", 10>>}
      [] line = "balance" -> {<<"total", 8>>}
      [] line = "grandtotal" -> {<<"total", 12>>, <<"total", 10>>}
      [] line = "tps" -> {<<"gst", 10>>}
      [] line = "tvq" -> {<<"qst", 10>>}
      [] OTHER -> {}

\* DATE_FORMATS, _parse_iso_date and _valid_iso on the line.
BillDate == IsoDate(2025, 2, 1)
NextBillDate == IsoDate(2025, 3, 1)
DueDate == IsoDate(2025, 3, 15)
PlainDate == IsoDate(2025, 1, 15)
DateOf(line) ==
    CASE line = "date" -> IsoA
      [] line = "billdate" -> BillDate
      [] line = "nextbill" -> NextBillDate
      [] line = "duedate" -> DueDate
      [] line = "plaindate" -> PlainDate
      [] OTHER -> NoDate
\* a time of day in the line
HasTime(line) == line \in {"date", "duedate"}
\* _DATE_CONFIRM: the line begins with the label of a transaction date.
DateConfirm(line) == line = "billdate"
\* _DATE_REJECT: a word of the line says that the date is not the one of
\* the transaction (next, due date, ...).
DateReject_never(line) == FALSE
DateReject(line) == line \in {"nextbill", "duedate"}

\* len(ocr_text.strip()): the lines and the newlines between them.
RECURSIVE TextLength(_)
TextLength(lines) ==
    IF lines = <<>> THEN 0
    ELSE LineLen(Head(lines)) + (IF Len(lines) > 1 THEN 1 ELSE 0) + TextLength(Tail(lines))

\* _extract_vendor, line 322-329 and 358-390: a known vendor in the ten lines
\* at the top, else the first of eight lines that looks like a name (the
\* texts hold no domain and no marketplace signal).
FirstN(lines, n) == SubSeq(lines, 1, IF Len(lines) < n THEN Len(lines) ELSE n)
_extract_vendor(lines) ==
    IF \E i \in 1..Len(FirstN(lines, 10)) : lines[i] = "iga" THEN IGA
    ELSE IF lines # <<>> /\ lines[1] = "filler" THEN Bienvenue
    ELSE NoStr

\* _extract_date: the dates found on the lines that are not rejected, each
\* with its score and its line; the highest score wins, then the line nearest
\* the top.
DateScore(lines, i) ==
    (IF DateConfirm(lines[i]) THEN 10 ELSE 0)
    + (IF HasTime(lines[i]) THEN 5 ELSE 0)
    + (IF 10 * (i - 1) < 4 * Len(lines) THEN 2 ELSE 0)
DateCandidates(lines) ==
    {<<DateOf(lines[i]), DateScore(lines, i), i>> :
        i \in {j \in 1..Len(lines) : ~DateReject(lines[j]) /\ DateOf(lines[j]) # NoDate}}
_extract_date(lines) ==
    IF DateCandidates(lines) = {} THEN NoDate
    ELSE (CHOOSE c \in DateCandidates(lines) :
             \A d \in DateCandidates(lines) :
                 c[2] > d[2] \/ (c[2] = d[2] /\ c[3] <= d[3]))[1]

\* _extract_amounts, line 447-455: the labelled amounts above zero, each with
\* the priority of its label and its line.
LineMatches(lines, field, i) ==
    {<<_parse_amount(lines[i]).v, l[2], i>> : l \in {k \in LabelsOf(lines[i]) : k[1] = field}}
AmountMatches(lines, field) ==
    UNION {LineMatches(lines, field, i) :
              i \in {j \in 1..Len(lines) : _parse_amount(lines[j]).v > 0}}

\* The choice among the matches with the total taken like the other fields,
\* nearest the top: the "total" inside "sous-total" would win.
best_amount_topmost(matches, field) ==
    IF matches = {} THEN NoneV
    ELSE Num((CHOOSE m \in matches :
                 \A o \in matches : m[2] > o[2] \/ (m[2] = o[2] /\ m[3] <= o[3]))[1])

\* The choice among the matches with the total taken nearest the bottom
\* whatever its priority.
best_amount_bottom_most(matches, field) ==
    IF matches = {} THEN NoneV
    ELSE IF field = "total"
       THEN Num((CHOOSE m \in matches : \A o \in matches : m[3] >= o[3])[1])
       ELSE Num((CHOOSE m \in matches :
                    \A o \in matches : m[2] > o[2] \/ (m[2] = o[2] /\ m[3] <= o[3]))[1])

\* line 457-473: the total is the match of the highest priority nearest the
\* bottom; a tax or the pre-tax amount the one of the highest priority
\* nearest the top.
best_amount(matches, field) ==
    IF matches = {} THEN NoneV
    ELSE IF field = "total"
       THEN Num((CHOOSE m \in matches :
                    \A o \in matches : m[2] > o[2] \/ (m[2] = o[2] /\ m[3] >= o[3]))[1])
       ELSE Num((CHOOSE m \in matches :
                    \A o \in matches : m[2] > o[2] \/ (m[2] = o[2] /\ m[3] <= o[3]))[1])
_extract_amounts(lines) ==
    [f \in {"total", "gst", "qst", "pst", "hst", "pre_tax"} |->
        best_amount(AmountMatches(lines, f), f)]

\* parse, line 286-292: a tax that is not below the total is dropped.
drop_tax(amounts, tax) ==
    IF Truthy(amounts.total) /\ Truthy(amounts[tax]) /\ amounts[tax].v >= amounts.total.v
       THEN NoneV ELSE amounts[tax]

\* DeterministicParser.parse
parse_amounts(lines, amounts) ==
    [date |-> _extract_date(lines),
     vendor |-> _extract_vendor(lines),
     total |-> amounts.total,
     gst |-> drop_tax(amounts, "gst"),
     qst |-> drop_tax(amounts, "qst"),
     pst |-> drop_tax(amounts, "pst"),
     hst |-> drop_tax(amounts, "hst"),
     pre_tax |-> amounts.pre_tax]
parse(lines) == parse_amounts(lines, _extract_amounts(lines))

\* What the pre-scan holds when the text is too short to be scanned.
NoAnchors ==
    [date |-> NoDate, vendor |-> NoStr, total |-> NoneV, gst |-> NoneV, qst |-> NoneV,
     pst |-> NoneV, hst |-> NoneV, pre_tax |-> NoneV]

\* What the validator finds in the text: the date of _scan_text_for_date (the
\* same date on every dated line) and no domain.
text_features(lines) ==
    OcrText(IF \E i \in 1..Len(lines) : DateOf(lines[i]) # NoDate THEN IsoA ELSE NoDate, NoStr)

\* The texts: three lines at the top, of which the first is a name when none
\* is IGA, the lines of the items, and the amounts at the bottom.
ReceiptTops ==
    {t \in [1..3 -> {"iga", "filler", "date"}] :
        (\A i \in 1..3 : t[i] # "iga") => t[1] = "filler"}
ReceiptItems == {<<>>, <<"item">>, <<"date">>, <<"item", "item">>}
ReceiptBottoms ==
    {<<"subtotal", "tps", "tvq", "total">>, <<"subtotal", "tps", "tvq">>, <<"total">>}
ReceiptTexts ==
    {t \o i \o b : t \in ReceiptTops, i \in ReceiptItems, b \in ReceiptBottoms}

\* The state when no receipt text is modelled.
ReceiptIdle == rlines = <<>>

ReceiptInit ==
    /\ rlines \in ReceiptTexts
    /\ pshort = FALSE
    /\ ptext = <<>>
    /\ pdet0 = <<>>
    /\ plogo = <<>>
    /\ pdet = <<>>
    /\ pprompts = <<>>
    /\ pparsed = <<>>
    /\ ppost = <<>>
    /\ ppatched = <<>>
    /\ pres = <<>>
    /\ ppath = "none"
    /\ ppc = "scan"

\* PaddleOCRClient.parse_receipt, line 508-513: the length of the text and
\* the pre-scan of its lines; no logo hint is given.
det_parse ==
    /\ ppc = "scan"
    /\ pshort' = (TextLength(rlines) < MIN_OCR_LENGTH)
    /\ ptext' = IF pshort' THEN OcrText(NoDate, NoStr) ELSE text_features(rlines)
    /\ pdet0' = IF pshort' THEN NoAnchors ELSE parse(rlines)
    /\ plogo' = NoStr
    /\ ppc' = "call"
    /\ UNCHANGED <<notParse, pdet, pprompts, pparsed, ppost, ppatched, pres, ppath>>

ReceiptNext == det_parse \/ ParseNext

\* Texts for the anchors alone, each under the line of the vendor: two to
\* four lines with dates, two to four lines with totals, and 41 lines with a
\* total at index 5 and at index 40.
DateLines == {"filler", "date", "billdate", "nextbill", "duedate", "plaindate"}
TotalLines == {"filler", "item", "subtotal", "tps", "total", "total2", "balance", "grandtotal"}
MinAnchorLines == 2
MaxAnchorLines == 4
LinesOver(kinds) ==
    {<<"iga">> \o b : b \in UNION {[1..n -> kinds] : n \in MinAnchorLines..MaxAnchorLines}}
TotalsAt5And40(first, second) ==
    [i \in 1..41 |-> IF i = 1 THEN "iga" ELSE IF i = 6 THEN first
                                         ELSE IF i = 41 THEN second ELSE "filler"]
LongTexts ==
    {TotalsAt5And40(a, b) : a \in {"total", "total2", "balance", "grandtotal"},
                            b \in {"total", "total2", "balance", "grandtotal"}}
AnchorTexts == LinesOver(DateLines) \cup LinesOver(TotalLines) \cup LongTexts

\* DeterministicParser.parse is called on a text.
AnchorInit ==
    /\ rlines \in AnchorTexts
    /\ pshort = FALSE
    /\ ptext = <<>>
    /\ pdet0 = <<>>
    /\ plogo = <<>>
    /\ pdet = <<>>
    /\ pprompts = <<>>
    /\ pparsed = <<>>
    /\ ppost = <<>>
    /\ ppatched = <<>>
    /\ pres = <<>>
    /\ ppath = "none"
    /\ ppc = "scan"

\* pdet0 = DeterministicParser().parse(text)
det_scan ==
    /\ ppc = "scan"
    /\ pdet0' = parse(rlines)
    /\ ppc' = "scanned"
    /\ UNCHANGED <<notParse, pshort, ptext, plogo, pdet, pprompts, pparsed, ppost, ppatched,
                   pres, ppath>>

AnchorNext == det_scan
(***************************************************************************)
(* workers/processor.py: DocumentProcessor.process_document and _pipeline  *)
(***************************************************************************)
\* A text by its length: empty, shorter than 40 characters, or longer.
TextKinds == {"none", "short", "long"}

\* The ways in which a stage fails: _run_with_timeout raises TimeoutError, or
\* the call raises another Exception.
FailureKinds == {"timeout", "exception"}

\* process_document, line 107-112: except TimeoutError, except Exception.
caught_timeout_only(kind) == kind = "timeout"
caught(kind) == kind \in {"timeout", "exception"}

\* line 109 and 112: the result of the two handlers.
handler_result(kind) ==
    IF kind = "timeout" THEN [status |-> "error", error |-> "timeout"]
    ELSE [status |-> "error", error |-> "exception"]

\* _pipeline, line 133-137: a removed tag on a known receipt forces a rescan.
force_reocr_of(in) ==
    in.force_reocr \/ (~in.already_tagged /\ in.existing_receipt)

\* line 152-154
has_text_never(in) == FALSE
has_text(in) == in.paperless = "long"
skip_vis(in) ==
    /\ has_text(in) /\ in.use_paperless_first /\ ~force_reocr_of(in)
    /\ (in.auto_skip_vision \/ ~in.text_changed)

\* line 160-161
needs_ocr(in) ==
    force_reocr_of(in) \/ in.content_changed \/ in.doc_ocr = "none" \/ ~has_text(in)

\* line 239-241
needs_parse(in) == ~in.hash_match \/ in.text_changed \/ force_reocr_of(in)

\* The documents and the configuration that process_document is called on.
DocInputs ==
    {in \in [force_reocr : BOOLEAN,
             use_paperless_first : BOOLEAN,
             auto_skip_vision : BOOLEAN,
             text_changed : BOOLEAN,
             content_changed : BOOLEAN,
             already_tagged : BOOLEAN,
             existing_receipt : BOOLEAN,
             hash_match : BOOLEAN,
             paperless : TextKinds,
             doc_ocr : {"none", "long"}] :
        in.content_changed => in.paperless # "none"}

\* What ocr_document returns: the text, the method and the logo hint. A PDF
\* with a text layer of 40 characters or more is read directly; its text can
\* be longer than MAX_RECEIPT_CHARS, as a bank statement or as something else.
OcrOutcomes ==
    [text : {"long", "statement", "large"}, method : {"pdf_direct"},
     logo : {"not applicable"}]
    \cup [text : TextKinds, method : {"paddle"}, logo : {"unknown", "known"}]

\* What parse_receipt returns on a text: the error text_too_short below 40
\* characters, else a result that is or is not a receipt.
ParseOutcomes(text) ==
    IF text = "short" THEN {"error"} ELSE {"not_receipt", "receipt"}

DocIdle ==
    /\ din = <<>>
    /\ ddoc_ocr = "none"
    /\ dtext = "none"
    /\ dmethod = "none"
    /\ dlogo = ""
    /\ dparsed = "none"
    /\ dlast = "none"
    /\ dfailed = {}
    /\ dexc = "none"
    /\ dres = <<>>
    /\ dpc = "idle"

DocInit ==
    /\ din \in DocInputs
    /\ ddoc_ocr = din.doc_ocr
    /\ dtext = "none"
    /\ dmethod = "none"
    /\ dlogo = ""
    /\ dparsed = "none"
    /\ dlast = "none"
    /\ dfailed = {}
    /\ dexc = "none"
    /\ dres = <<>>
    /\ dpc = "call"

\* return of _pipeline, through the finally clause of process_document
Return(res) == dres' = res /\ dpc' = "returned" /\ dexc' = dexc

\* A database call of _pipeline raises: the exception leaves _pipeline.
RaiseInPipeline(stage, kind) ==
    /\ dexc' = kind /\ dpc' = "unwinding" /\ dres' = dres
    /\ dfailed' = dfailed \cup {<<stage, kind>>}

\* _tag: three attempts, every exception of which is caught.
TagOutcome(ok) == IF ok THEN {} ELSE {<<"tag", "exception">>}

\* process_document, line 102-106, and _pipeline, line 118-161: the session,
\* the configuration, the Document row, last_status = "processing", and the
\* choice of the text source.
pipeline_begin ==
    /\ dpc = "call"
    /\ \E db \in {"ok", "query_raises", "commit_raises"} :
          IF db # "ok"
             THEN /\ RaiseInPipeline("persist", "exception")
                  /\ dlast' = IF db = "commit_raises" THEN "processing" ELSE dlast
                  /\ UNCHANGED <<dtext, dmethod, dlogo>>
             ELSE /\ dlast' = "processing"
                  /\ dexc' = dexc /\ dres' = dres /\ dfailed' = dfailed
                  /\ IF skip_vis(din)
                        THEN dtext' = din.paperless /\ dmethod' = "paperless"
                             /\ dlogo' = "" /\ dpc' = "store"
                     ELSE IF needs_ocr(din)
                        THEN UNCHANGED <<dtext, dmethod, dlogo>> /\ dpc' = "download"
                     ELSE dtext' = ddoc_ocr /\ dmethod' = "cached"
                          /\ dlogo' = "" /\ dpc' = "store"
    /\ UNCHANGED <<notDoc, din, ddoc_ocr, dparsed>>

\* line 164: raw_bytes = _run_with_timeout(self.paperless.download_document)
download_document ==
    /\ dpc = "download"
    /\ \/ dpc' = "ocr" /\ dfailed' = dfailed
       \/ \E k \in FailureKinds :
             dpc' = "ocr_except" /\ dfailed' = dfailed \cup {<<"download", k>>}
    /\ UNCHANGED <<notDoc, din, ddoc_ocr, dtext, dmethod, dlogo, dparsed, dlast, dexc, dres>>

\* line 167-174: _run_with_timeout(self.paddle_ocr.ocr_document)
ocr_document ==
    /\ dpc = "ocr"
    /\ \/ \E o \in OcrOutcomes :
             /\ dtext' = o.text /\ dmethod' = o.method /\ dlogo' = o.logo
             /\ dpc' = IF o.method # "pdf_direct" /\ o.logo = "unknown"
                          THEN "logo" ELSE "large"
             /\ dfailed' = dfailed
       \/ \E k \in FailureKinds :
             /\ dpc' = "ocr_except" /\ dfailed' = dfailed \cup {<<"ocr", k>>}
             /\ UNCHANGED <<dtext, dmethod, dlogo>>
    /\ UNCHANGED <<notDoc, din, ddoc_ocr, dparsed, dlast, dexc, dres>>

\* line 174-180: the logo identification; its failure is logged and the
\* pipeline goes on.
identify_logo ==
    /\ dpc = "logo"
    /\ \/ \E l \in {"unknown", "known"} : dlogo' = l /\ dfailed' = dfailed
       \/ \E k \in FailureKinds : dlogo' = dlogo /\ dfailed' = dfailed \cup {<<"logo", k>>}
    /\ dpc' = "large"
    /\ UNCHANGED <<notDoc, din, ddoc_ocr, dtext, dmethod, dparsed, dlast, dexc, dres>>

\* line 182-212: the text is kept on the Document row; a long PDF text that
\* looks like a bank statement ends the pipeline, another one is truncated.
\* The commit of line 198 is inside the try block of the OCR phase.
large_pdf ==
    /\ dpc = "large"
    /\ IF dtext = "statement"
          THEN /\ ddoc_ocr' = "long"
               /\ dlast' = "done"
               /\ \E ok \in BOOLEAN, tagged \in BOOLEAN :
                     IF ok
                        THEN /\ Return([status |-> "done", is_receipt |-> FALSE,
                                        reason |-> "statement_detected"])
                             /\ dfailed' = dfailed \cup TagOutcome(tagged)
                        ELSE /\ dpc' = "ocr_except" /\ dres' = dres /\ dexc' = dexc
                             /\ dfailed' = dfailed \cup {<<"persist", "exception">>}
               /\ dtext' = "long"
       ELSE /\ dtext' = IF dtext = "large" THEN "long" ELSE dtext
            /\ ddoc_ocr' = dtext'
            /\ dpc' = "store"
            /\ UNCHANGED <<dlast, dfailed, dexc, dres>>
    /\ UNCHANGED <<notDoc, din, dmethod, dlogo, dparsed>>

\* line 214-221: an exception of the OCR phase: the text of an earlier run,
\* else the text of Paperless, else the result "error".
ocr_except ==
    /\ dpc = "ocr_except"
    /\ IF ddoc_ocr # "none"
          THEN /\ dtext' = ddoc_ocr /\ dmethod' = "cached" /\ dlogo' = ""
               /\ dpc' = "store"
               /\ UNCHANGED <<dlast, dfailed, dexc, dres>>
       ELSE IF has_text(din)
          THEN /\ dtext' = din.paperless /\ dmethod' = "paperless_fallback" /\ dlogo' = ""
               /\ dpc' = "store"
               /\ UNCHANGED <<dlast, dfailed, dexc, dres>>
       ELSE /\ dlast' = "error"
            /\ UNCHANGED <<dtext, dmethod, dlogo>>
            /\ \E ok \in BOOLEAN :
                  IF ok THEN Return([status |-> "error", error |-> "ocr"])
                             /\ dfailed' = dfailed
                  ELSE RaiseInPipeline("persist", "exception")
    /\ UNCHANGED <<notDoc, din, ddoc_ocr, dparsed>>

\* line 225-233: the text is committed; no usable text ends the pipeline with
\* "skipped".
store_text ==
    /\ dpc = "store"
    /\ ddoc_ocr' = dtext
    /\ \E ok \in BOOLEAN, ok2 \in BOOLEAN :
          IF ~ok THEN RaiseInPipeline("persist", "exception") /\ dlast' = dlast
          ELSE IF dtext = "none"
             THEN /\ dlast' = "skipped"
                  /\ IF ok2 THEN /\ Return([status |-> "skipped", reason |-> "no_text"])
                                 /\ dfailed' = dfailed
                     ELSE RaiseInPipeline("persist", "exception")
          ELSE /\ dpc' = "parse" /\ UNCHANGED <<dlast, dfailed, dexc, dres>>
    /\ UNCHANGED <<notDoc, din, dtext, dmethod, dlogo, dparsed>>

\* line 238-260: a text whose parse is stored is not parsed again; else
\* _run_with_timeout(self.paddle_ocr.parse_receipt), whose TimeoutError is
\* the result "error".
parse_phase ==
    /\ dpc = "parse"
    /\ IF ~needs_parse(din)
          THEN /\ dlast' = "done" /\ dparsed' = dparsed
               /\ \E ok \in BOOLEAN, tagged \in BOOLEAN :
                     IF ok
                        THEN /\ Return([status |-> "done",
                                        is_receipt |-> din.existing_receipt,
                                        cached |-> TRUE])
                             /\ dfailed' = dfailed \cup TagOutcome(tagged)
                        ELSE RaiseInPipeline("persist", "exception")
       ELSE \/ /\ RaiseInPipeline("persist", "exception")
               /\ UNCHANGED <<dlast, dparsed>>
            \/ \E p \in ParseOutcomes(dtext) :
                  /\ dparsed' = p /\ dpc' = "parsed"
                  /\ UNCHANGED <<dlast, dfailed, dexc, dres>>
            \/ /\ RaiseInPipeline("parse", "exception")
               /\ UNCHANGED <<dlast, dparsed>>
            \/ /\ dlast' = "error" /\ dparsed' = dparsed
               /\ \E ok \in BOOLEAN :
                     IF ok
                        THEN /\ Return([status |-> "error", error |-> "parse timeout"])
                             /\ dfailed' = dfailed \cup {<<"parse", "timeout">>}
                        ELSE /\ dexc' = "exception" /\ dpc' = "unwinding" /\ dres' = dres
                             /\ dfailed' = dfailed \cup {<<"parse", "timeout">>,
                                                         <<"persist", "exception">>}
    /\ UNCHANGED <<notDoc, din, ddoc_ocr, dtext, dmethod, dlogo>>

\* line 262-309: the result of the parse: its error, no receipt, or the
\* receipt row (line 276-296), the update of Paperless (whose failures are
\* caught), the commit and the result "done".
store_parsed ==
    /\ dpc = "parsed"
    /\ \E db \in {"ok", "upsert_raises", "commit_raises"}, tagged \in BOOLEAN :
          IF dparsed = "error"
             THEN /\ dlast' = "error"
                  /\ IF db = "ok"
                        THEN /\ Return([status |-> "error", error |-> "text_too_short"])
                             /\ dfailed' = dfailed
                        ELSE RaiseInPipeline("persist", "exception")
          ELSE IF dparsed = "not_receipt"
             THEN /\ dlast' = "done"
                  /\ IF db = "ok"
                        THEN /\ Return([status |-> "done", is_receipt |-> FALSE])
                             /\ dfailed' = dfailed
                        ELSE RaiseInPipeline("persist", "exception")
          ELSE IF db = "upsert_raises"
             THEN RaiseInPipeline("persist", "exception") /\ dlast' = dlast
          ELSE /\ dlast' = "done"
               /\ IF db = "ok"
                     THEN /\ Return([status |-> "done", is_receipt |-> TRUE])
                          /\ dfailed' = dfailed \cup TagOutcome(tagged)
                     ELSE /\ dexc' = "exception" /\ dpc' = "unwinding" /\ dres' = dres
                          /\ dfailed' = dfailed \cup TagOutcome(tagged)
                                                 \cup {<<"persist", "exception">>}
    /\ UNCHANGED <<notDoc, din, ddoc_ocr, dtext, dmethod, dlogo, dparsed>>

\* process_document, line 107-115: the two handlers and the finally clause.
process_document_except ==
    /\ dpc = "unwinding"
    /\ IF caught(dexc)
          THEN dres' = handler_result(dexc) /\ dpc' = "returned"
          ELSE dres' = dres /\ dpc' = "propagated"
    /\ UNCHANGED <<notDoc, din, ddoc_ocr, dtext, dmethod, dlogo, dparsed, dlast, dfailed, dexc>>

DocNext ==
    \/ pipeline_begin
    \/ download_document
    \/ ocr_document
    \/ identify_logo
    \/ large_pdf
    \/ ocr_except
    \/ store_text
    \/ parse_phase
    \/ store_parsed
    \/ process_document_except
(***************************************************************************)
(* workers/processor.py: the calls that one DocumentProcessor starts       *)
(* through _run_with_timeout while run_batch goes over the documents       *)
(***************************************************************************)
\* Documents that run_batch hands to the processor.
MaxDocs == 2

\* The calls that _pipeline wraps in _run_with_timeout, in their order
\* (line 164, 167, 176, 253).
Stages == {"download", "ocr", "logo", "parse"}
\* The recognition calls: ocr_document, identify_logo, parse_receipt.
RecognitionStages == {"ocr", "logo", "parse"}
\* How the target of a thread ends: result[0] is set or exc[0] is set (line 36-40).
Endings == {"result", "raised"}

\* _pipeline, line 156-222: a document whose text is reused starts at the
\* parse phase, the others at the download.
FirstStages == {"download", "parse"}

\* The stage (or the end of the document) that follows a call that returned:
\* after ocr_document the logo call is made for an image without a logo hint
\* (line 174-178); a statement, an empty text and an unchanged parse hash end
\* the document before the parse call (line 189-201, 229-247).
after_result(stage) ==
    CASE stage = "download" -> {"ocr"}
      [] stage = "ocr" -> {"logo", "parse", "end"}
      [] stage = "logo" -> {"parse", "end"}
      [] stage = "parse" -> {"end"}

\* The stage that follows a call that raised or timed out: the handler of the
\* OCR stage takes the cached or pre-extracted text when there is one (line
\* 216-222), the logo handler goes on (line 179-180), and a failed parse ends
\* the document (line 257-260, process_document line 107-112).
after_failure(stage, fallback) ==
    CASE stage \in {"download", "ocr"} -> IF fallback THEN {"parse", "end"} ELSE {"end"}
      [] stage = "logo" -> {"parse", "end"}
      [] stage = "parse" -> {"end"}

\* The call of the processor that _run_with_timeout is waiting for.
CurrentCall == <<sdoc, spc>>
RunningRecognition == {c \in srunning : c[2] \in RecognitionStages}

SeqIdle ==
    /\ sdoc = 0 /\ spc = "end" /\ sjoin = FALSE /\ sfallback = FALSE
    /\ srunning = {} /\ sfinished = {}

\* run_batch, line 358-365: the first document enters process_document.
SeqInit ==
    /\ sdoc = 1
    /\ spc \in FirstStages
    /\ sjoin = FALSE
    /\ sfallback \in BOOLEAN
    /\ srunning = {}
    /\ sfinished = {}

\* _run_with_timeout, line 41-43: the daemon thread is started and the caller
\* waits in t.join(timeout).
start_thread ==
    /\ sdoc \in 1..MaxDocs /\ spc \in Stages /\ ~sjoin
    /\ srunning' = srunning \cup {CurrentCall}
    /\ sjoin' = TRUE
    /\ UNCHANGED <<notSeq, sdoc, spc, sfallback, sfinished>>

\* line 36-40: the target of a thread ends, with a result or an exception,
\* whether or not somebody still waits for it.
target_ends ==
    \E c \in srunning, e \in Endings :
        /\ srunning' = srunning \ {c}
        /\ sfinished' = sfinished \cup {<<c, e>>}
        /\ UNCHANGED <<notSeq, sdoc, spc, sjoin, sfallback>>

\* line 44-45: the join timed out, the thread is alive: TimeoutError, and the
\* thread is left running.
join_timeout ==
    /\ sjoin /\ CurrentCall \in srunning
    /\ sjoin' = FALSE
    /\ spc' \in after_failure(spc, sfallback)
    /\ UNCHANGED <<notSeq, sdoc, sfallback, srunning, sfinished>>

\* line 46-47: the thread ended with an exception, which is raised again.
join_raises ==
    /\ sjoin /\ <<CurrentCall, "raised">> \in sfinished
    /\ sjoin' = FALSE
    /\ spc' \in after_failure(spc, sfallback)
    /\ UNCHANGED <<notSeq, sdoc, sfallback, srunning, sfinished>>

\* line 48: the thread ended with a result.
join_returns ==
    /\ sjoin /\ <<CurrentCall, "result">> \in sfinished
    /\ sjoin' = FALSE
    /\ spc' \in after_result(spc)
    /\ UNCHANGED <<notSeq, sdoc, sfallback, srunning, sfinished>>

\* run_batch, line 362-374: process_document returned; the same processor is
\* given the next document.
next_document ==
    /\ sdoc \in 1..MaxDocs /\ spc = "end"
    /\ sdoc' = sdoc + 1
    /\ spc' \in IF sdoc < MaxDocs THEN FirstStages ELSE {"end"}
    /\ sfallback' \in IF sdoc < MaxDocs THEN BOOLEAN ELSE {FALSE}
    /\ UNCHANGED <<notSeq, sjoin, srunning, sfinished>>

SeqNext ==
    \/ start_thread
    \/ target_ends
    \/ join_timeout
    \/ join_raises
    \/ join_returns
    \/ next_document
(***************************************************************************)
(* services/paddle_ocr.py, services/ollama.py: one call of                 *)
(* PaddleOCRClient.ocr_document, the vision fallback included              *)
(***************************************************************************)
\* A text is a sequence of pieces, each the result of one recognition call:
\* the call, the length of the piece, whether DeterministicParser.parse
\* finds a total in it, and whether it holds amounts with a decimal comma.
Piece(call, len, total, commas) ==
    [call |-> call, len |-> len, total |-> total, commas |-> commas]
\* "\n\n[BOTTOM REGION RESCAN]\n"
RescanMarker == <<Piece("marker", 25, FALSE, FALSE)>>
EmptyText == <<>>

\* What one recognition call returns: nothing, "IGA", a line of ten
\* characters, a receipt without its total, a whole receipt.
CallTexts(call) ==
    {EmptyText, <<Piece(call, 3, FALSE, FALSE)>>, <<Piece(call, 10, FALSE, TRUE)>>,
     <<Piece(call, 50, FALSE, TRUE)>>, <<Piece(call, 60, TRUE, TRUE)>>}
\* What a call on the bottom region returns.
BottomTexts(call) == {EmptyText, <<Piece(call, 20, TRUE, TRUE)>>}

\* len(text); the texts hold no blank at either end
RECURSIVE LenOfText(_)
LenOfText(text) == IF text = <<>> THEN 0 ELSE Head(text).len + LenOfText(Tail(text))
\* self._det.parse(text).get("total") is None
NoTotalIn(text) == \A i \in 1..Len(text) : ~text[i].total
\* OllamaClient._normalise_french_decimals: "20,50" becomes "20.50"
_normalise_french_decimals(text) == [i \in 1..Len(text) |-> [text[i] EXCEPT !.commas = FALSE]]

\* The text of the bottom region alone.
rescan_only(text, bottom_text) == bottom_text
\* ocr_text + "\n\n[BOTTOM REGION RESCAN]\n" + bottom_text
append_rescan(text, bottom_text) == text \o RescanMarker \o bottom_text

DocKinds == {"image", "pdf_text", "pdf_scan", "pdf_unrasterized"}
NoResult == [text |-> EmptyText, method |-> "none"]
Returned(text, method) == [text |-> text, method |-> method]
Call(name, text) == <<name, LenOfText(text)>>

OcrIdle ==
    /\ okind = "none" /\ opaperless = FALSE /\ opc = "idle" /\ otrail = <<>>
    /\ otext = EmptyText /\ ofirst = EmptyText /\ ores = NoResult

OcrDocInit ==
    /\ okind \in DocKinds
    /\ opaperless \in BOOLEAN
    /\ opc = "start"
    /\ otrail = <<>>
    /\ otext = EmptyText
    /\ ofirst = EmptyText
    /\ ores = NoResult

\* PaddleOCRClient.ocr_document, line 256-270: a PDF with selectable text is
\* returned as it is; a PDF that cannot be rasterized goes to the vision
\* model; an image, or the image of the page, is preprocessed.
ocr_pdf_handling ==
    /\ opc = "start"
    /\ IF okind = "pdf_text"
          THEN /\ ores' = Returned(<<Piece("pdf", 60, TRUE, FALSE)>>, "pdf_direct")
               /\ opc' = "returned"
          ELSE /\ ores' = ores
               /\ opc' = IF okind = "pdf_unrasterized" THEN "vision" ELSE "init_paddle"
    /\ UNCHANGED <<notOcr, okind, opaperless, otrail, otext, ofirst>>

\* line 273: if self._init_paddle()
ocr_init_paddle ==
    /\ opc = "init_paddle"
    /\ \E ready \in BOOLEAN :
          /\ otrail' = Append(otrail, <<"init_paddle", IF ready THEN 1 ELSE 0>>)
          /\ opc' = IF ready THEN "run_paddle" ELSE "vision"
    /\ UNCHANGED <<notOcr, okind, opaperless, otext, ofirst, ores>>

\* line 275-277 and 300-305: _run_paddle_ocr, which returns "" when the
\* engine raises; a text below MIN_OCR_LENGTH goes to the vision model.
ocr_run_paddle ==
    /\ opc = "run_paddle"
    /\ \E t \in CallTexts("paddle") :
          /\ otrail' = Append(otrail, Call("paddle", t))
          /\ otext' = t
          /\ ofirst' = IF LenOfText(t) >= MIN_OCR_LENGTH THEN t ELSE ofirst
          /\ opc' = IF LenOfText(t) >= MIN_OCR_LENGTH THEN "paddle_quick" ELSE "vision"
    /\ UNCHANGED <<notOcr, okind, opaperless, ores>>

\* line 279-298: the quick pre-scan; without a total the bottom region is
\* cropped and read, and what is read is appended under the marker.
ocr_paddle_rescan ==
    /\ opc = "paddle_quick"
    /\ IF NoTotalIn(otext)
          THEN \E cropped \in BOOLEAN, b \in BottomTexts("paddle_bottom") :
                  /\ otrail' = IF cropped THEN Append(otrail, Call("paddle_bottom", b))
                                          ELSE otrail
                  /\ otext' = IF cropped /\ b # EmptyText THEN append_rescan(otext, b)
                                                          ELSE otext
          ELSE UNCHANGED <<otrail, otext>>
    /\ ores' = Returned(otext', "paddleocr")
    /\ opc' = "returned"
    /\ UNCHANGED <<notOcr, okind, opaperless, ofirst>>

\* _ollama_vision_fallback, line 386-395, and OllamaClient.ocr_document, line
\* 330-342: the client is made and the logo is looked for; when that raises,
\* the pre-extracted text is returned if it is long enough.
vision_start ==
    /\ opc = "vision"
    /\ \E raised \in BOOLEAN :
          IF raised
             THEN /\ ores' = IF opaperless
                                THEN Returned(<<Piece("paperless", 60, TRUE, FALSE)>>,
                                              "paperless_fallback")
                                ELSE Returned(EmptyText, "failed")
                  /\ opc' = "returned"
                  /\ otrail' = otrail
             ELSE /\ ores' = ores
                  /\ opc' = "vision_primary"
                  /\ otrail' = Append(otrail, <<"logo", 0>>)
    /\ UNCHANGED <<notOcr, okind, opaperless, otext, ofirst>>

\* OllamaClient.ocr_document, line 345-347: the main pass with VISION_PROMPT.
vision_primary ==
    /\ opc = "vision_primary"
    /\ \E t \in CallTexts("vision_primary") :
          /\ otrail' = Append(otrail, Call("vision_primary", t))
          /\ otext' = t
          /\ opc' = IF LenOfText(t) < MIN_OCR_LENGTH THEN "vision_retry" ELSE "vision_quick"
    /\ UNCHANGED <<notOcr, okind, opaperless, ofirst, ores>>

\* line 349 without its condition: the answer to the second prompt is kept.
keep_second(text, text2) == text2
\* line 349-350: if len(text2) > len(text): text = text2
keep_longer(text, text2) == IF LenOfText(text2) > LenOfText(text) THEN text2 ELSE text

\* line 348-352: VISION_RETRY_PROMPT; the longer text is kept; with no text
\* at all the unprocessed bytes are tried.
vision_retry ==
    /\ opc = "vision_retry"
    /\ \E t2 \in CallTexts("vision_retry") :
          /\ otrail' = Append(otrail, Call("vision_retry", t2))
          /\ otext' = keep_longer(otext, t2)
          /\ opc' = IF otext' # EmptyText THEN "vision_quick" ELSE "vision_raw"
    /\ UNCHANGED <<notOcr, okind, opaperless, ofirst, ores>>

\* line 352-367: the text is normalised and pre-scanned; without a total the
\* bottom region is read with VISION_RETRY_PROMPT and appended.
vision_rescan ==
    /\ opc = "vision_quick"
    /\ ofirst' = _normalise_french_decimals(otext)
    /\ IF NoTotalIn(ofirst')
          THEN \E cropped \in BOOLEAN, b \in BottomTexts("vision_bottom") :
                  /\ otrail' = IF cropped THEN Append(otrail, Call("vision_bottom", b))
                                          ELSE otrail
                  /\ otext' = IF cropped /\ b # EmptyText
                                 THEN append_rescan(ofirst', _normalise_french_decimals(b))
                                 ELSE ofirst'
          ELSE /\ otrail' = otrail
               /\ otext' = ofirst'
    /\ ores' = Returned(otext', "ollama_vision_preprocessed")
    /\ opc' = "returned"
    /\ UNCHANGED <<notOcr, okind, opaperless>>

\* line 369-372: VISION_PROMPT on the unprocessed bytes.
vision_raw ==
    /\ opc = "vision_raw"
    /\ \E t \in CallTexts("vision_raw") :
          /\ otrail' = Append(otrail, Call("vision_raw", t))
          /\ otext' = _normalise_french_decimals(t)
          /\ ores' = IF t # EmptyText THEN Returned(otext', "ollama_vision")
                                      ELSE Returned(EmptyText, "ollama_failed")
    /\ opc' = "returned"
    /\ UNCHANGED <<notOcr, okind, opaperless, ofirst>>

OcrNext ==
    \/ ocr_pdf_handling
    \/ ocr_init_paddle
    \/ ocr_run_paddle
    \/ ocr_paddle_rescan
    \/ vision_start
    \/ vision_primary
    \/ vision_retry
    \/ vision_rescan
    \/ vision_raw

\* The call under a scheduler that lets the calling thread run.
OcrLive == WF_vars(OcrNext)
(***************************************************************************)
(* workers/processor.py: the parse phase of _pipeline over successive runs *)
(* of one document                                                         *)
(***************************************************************************)
MaxRuns == 3
\* The OCR text of a run: a text below MIN_OCR_LENGTH characters, or a longer
\* one. _sha256 tells the two apart.
RunTexts == {"short", "long"}
\* How a run is started: plainly, with force_reocr in effect (asked for, set
\* in the configuration, or a removed tag on a known receipt), or with a
\* text model other than the one used before.
RunModes == {"plain", "forced", "model_changed"}
RunInputs == [text : RunTexts, mode : RunModes]

NoRun == [text |-> "none", mode |-> "none"]
NewDocument == [structured_parse_hash |-> "none", last_status |-> "none", receipt |-> FALSE]

\* line 237: ocr_hash = _sha256(ocr_text)
_sha256(text) == text

\* line 238-241: needs_parse
needs_parse_run(doc, in) ==
    \/ doc.structured_parse_hash = "none"
    \/ doc.structured_parse_hash # _sha256(in.text)
    \/ in.mode = "model_changed"
    \/ in.mode = "forced"

\* line 263: doc.structured_parse_hash = ocr_hash
hash_after_parse(doc, in, parsed) == _sha256(in.text)

Finished(outcome, status, cached) ==
    khist' = Append(khist, [text |-> kin.text, mode |-> kin.mode, outcome |-> outcome,
                            status |-> status, cached |-> cached])

RunsIdle ==
    /\ kdoc = NewDocument /\ kin = NoRun /\ kparsed = "none" /\ kpc = "idle" /\ khist = <<>>

RunsInit ==
    /\ kdoc = NewDocument
    /\ kin = NoRun
    /\ kparsed = "none"
    /\ kpc = "between"
    /\ khist = <<>>

\* line 139-141 and 225-237: the run begins; its text is not blank.
run_begin ==
    /\ kpc = "between"
    /\ Len(khist) < MaxRuns
    /\ \E in \in RunInputs : kin' = in
    /\ kdoc' = [kdoc EXCEPT !.last_status = "processing"]
    /\ kparsed' = "none"
    /\ kpc' = "parse"
    /\ UNCHANGED <<notRuns, khist>>

\* line 243-247: the stored parse is current: "done" with cached = True.
parse_cached ==
    /\ kpc = "parse"
    /\ ~needs_parse_run(kdoc, kin)
    /\ kdoc' = [kdoc EXCEPT !.last_status = "done"]
    /\ Finished("cached", "done", TRUE)
    /\ kpc' = "between"
    /\ UNCHANGED <<notRuns, kin, kparsed>>

\* line 251-260: parse_receipt under _run_with_timeout. A timeout is the
\* result "error"; another exception leaves _pipeline and is answered by
\* process_document, line 110-112, with the Document row as it was.
parse_receipt_call ==
    /\ kpc = "parse"
    /\ needs_parse_run(kdoc, kin)
    /\ \/ \E p \in ParseOutcomes(kin.text) :
             /\ kparsed' = p /\ kpc' = "parsed"
             /\ UNCHANGED <<kdoc, khist>>
       \/ /\ kdoc' = [kdoc EXCEPT !.last_status = "error"]
          /\ Finished("timeout", "error", FALSE)
          /\ kpc' = "between" /\ kparsed' = kparsed
       \/ /\ Finished("exception", "error", FALSE)
          /\ kpc' = "between" /\ UNCHANGED <<kdoc, kparsed>>
    /\ UNCHANGED <<notRuns, kin>>

\* line 262-309: the hash of the parsed text is put on the Document row,
\* then the error, the non-receipt or the receipt is stored and committed.
\* When the receipt cannot be stored the exception leaves _pipeline, and no
\* handler rolls the session back: what was flushed is kept by a session
\* that goes on to the next commit and lost with one that is closed.
store_parse ==
    /\ kpc = "parsed"
    /\ \E stored \in BOOLEAN, kept \in BOOLEAN :
          IF kparsed = "receipt" /\ ~stored
             THEN /\ kdoc' = IF kept
                                THEN [kdoc EXCEPT !.structured_parse_hash =
                                                      hash_after_parse(kdoc, kin, kparsed),
                                                  !.receipt = TRUE]
                                ELSE kdoc
                  /\ Finished("exception", "error", FALSE)
             ELSE /\ kdoc' = [structured_parse_hash |-> hash_after_parse(kdoc, kin, kparsed),
                              last_status |-> IF kparsed = "error" THEN "error" ELSE "done",
                              receipt |-> kdoc.receipt \/ kparsed = "receipt"]
                  /\ Finished(kparsed, IF kparsed = "error" THEN "error" ELSE "done", FALSE)
    /\ kpc' = "between"
    /\ UNCHANGED <<notRuns, kin, kparsed>>

RunsNext ==
    \/ run_begin
    \/ parse_cached
    \/ parse_receipt_call
    \/ store_parse
(***************************************************************************)
(* Specifications                                                          *)
(***************************************************************************)
\* The scheduler: trigger_batch callers and batch worker threads.
Init == BatchInit /\ EngineInit /\ ValidateIdle /\ MergeIdle /\ ParseIdle /\ DocIdle /\ MathIdle /\ ReceiptIdle /\ SeqIdle /\ OcrIdle /\ RunsIdle
Next == BatchNext
Spec == Init /\ [][Next]_vars

\* Lazy engine initialization: threads calling _init_paddle and _init_clip.
SpecEngine == Init /\ [][EngineNext]_vars

\* The validator: process applied to a raw result.
InitValidate == BatchInit /\ EngineInit /\ ValidateInit /\ MergeIdle /\ ParseIdle /\ DocIdle /\ MathIdle /\ ReceiptIdle /\ SeqIdle /\ OcrIdle /\ RunsIdle
SpecValidate == InitValidate /\ [][ValidateNext]_vars

\* The resolver: _sanitize, then _merge_with_deterministic.
InitMerge == BatchInit /\ EngineInit /\ ValidateIdle /\ MergeInit /\ ParseIdle /\ DocIdle /\ MathIdle /\ ReceiptIdle /\ SeqIdle /\ OcrIdle /\ RunsIdle
SpecMerge == InitMerge /\ [][MergeNext]_vars

\* Structured parsing: PaddleOCRClient.parse_receipt and the model path.
InitParse == BatchInit /\ EngineInit /\ ValidateIdle /\ MergeIdle /\ ParseInit /\ DocIdle /\ MathIdle /\ ReceiptIdle /\ SeqIdle /\ OcrIdle /\ RunsIdle
SpecParse == InitParse /\ [][ParseNext]_vars

\* The arithmetic validation and the confidence: process on amounts.
InitMath ==
    BatchInit /\ EngineInit /\ ValidateIdle /\ MergeIdle /\ ParseIdle /\ DocIdle /\ MathInit /\ ReceiptIdle /\ SeqIdle /\ OcrIdle /\ RunsIdle
SpecMath == InitMath /\ [][MathNext]_vars

\* A receipt text: the deterministic pre-scan, then parse_receipt on it.
InitReceipt ==
    BatchInit /\ EngineInit /\ ValidateIdle /\ MergeIdle /\ DocIdle /\ MathIdle /\ ReceiptInit /\ SeqIdle /\ OcrIdle /\ RunsIdle
SpecReceipt == InitReceipt /\ [][ReceiptNext]_vars

\* The anchors: the deterministic pre-scan on texts with dates and totals.
InitAnchors ==
    BatchInit /\ EngineInit /\ ValidateIdle /\ MergeIdle /\ DocIdle /\ MathIdle /\ AnchorInit /\ SeqIdle /\ OcrIdle /\ RunsIdle
SpecAnchors == InitAnchors /\ [][AnchorNext]_vars

\* Text recognition: PaddleOCRClient.ocr_document on one document.
InitOcr ==
    BatchInit /\ EngineInit /\ ValidateIdle /\ MergeIdle /\ ParseIdle /\ DocIdle /\ MathIdle /\ ReceiptIdle /\ SeqIdle /\ OcrDocInit /\ RunsIdle
SpecOcr == InitOcr /\ [][OcrNext]_vars
SpecOcrLive == SpecOcr /\ OcrLive

\* Successive runs over one document: the parse phase and the stored hash.
InitRuns ==
    BatchInit /\ EngineInit /\ ValidateIdle /\ MergeIdle /\ ParseIdle /\ DocIdle /\ MathIdle /\ ReceiptIdle /\ SeqIdle /\ OcrIdle /\ RunsInit
SpecRuns == InitRuns /\ [][RunsNext]_vars

\* A batch: the calls that one DocumentProcessor starts, document by document.
InitSeq ==
    BatchInit /\ EngineInit /\ ValidateIdle /\ MergeIdle /\ ParseIdle /\ DocIdle /\ MathIdle /\ ReceiptIdle /\ SeqInit /\ OcrIdle /\ RunsIdle
SpecSeq == InitSeq /\ [][SeqNext]_vars

\* One document: DocumentProcessor.process_document.
InitDoc == BatchInit /\ EngineInit /\ ValidateIdle /\ MergeIdle /\ ParseIdle /\ DocInit /\ MathIdle /\ ReceiptIdle /\ SeqIdle /\ OcrIdle /\ RunsIdle
SpecDoc == InitDoc /\ [][DocNext]_vars

\* get_job_status(): a copy of the status record.
get_job_status == job

\* Threads that hold the batch lock: a caller between its acquire and its
\* return, or a worker thread that has not ended.
ActiveWorkers == {w \in Workers : wpc[w] \in WorkerActive}
CallersInside == {c \in Callers : tpc[c] \in {"start", "except"}}

(***************************************************************************)
(* C1. At most one batch execution is active at any time; a trigger_batch  *)
(* call that finds the lock held returns False and starts no worker thread *)
(* (nothing is queued for it); of the calls racing for a free lock exactly *)
(* one, the one that acquires it, returns True.                            *)
(***************************************************************************)
SingleFlight ==
    /\ Cardinality(ActiveWorkers) + Cardinality(CallersInside) <= 1
    /\ (ActiveWorkers # {} \/ CallersInside # {}) => lock

RejectedNotQueued ==
    \A c \in Callers :
        tsaw[c] => /\ tret[c] = "false"
                   /\ tspawned[c] = 0
                   /\ tpc[c] = "idle"

\* The original statement: the call that wins the race returns True.
C1_ExactlyOneTrue ==
    /\ SingleFlight
    /\ RejectedNotQueued
    /\ \A c \in Callers :
          (twon[c] /\ tpc[c] = "idle") => tret[c] = "true"

\* The amended statement: the winner returns True exactly when its worker
\* thread was launched; when the launch fails it returns False as well.
C1_SingleFlight ==
    /\ SingleFlight
    /\ RejectedNotQueued
    /\ \A c \in Callers :
          /\ tret[c] = "true" => twon[c] /\ tspawned[c] = 1
          /\ (twon[c] /\ tpc[c] = "idle") =>
                (tret[c] = "true" <=> tspawned[c] = 1)
          /\ tspawned[c] <= 1

\* A call was rejected while a batch was running that another call started.
C1_Witness ==
    \E c, d \in Callers :
        /\ c # d
        /\ tret[c] = "true" /\ tspawned[c] = 1
        /\ tsaw[d] /\ tret[d] = "false"
        /\ \E w \in Workers : wpc[w] = "run"

(***************************************************************************)
(* C2. The batch lock is released on every exit path of a triggered batch: *)
(* once no trigger_batch call is in progress and every worker thread that  *)
(* was started has ended (normally or with an exception), the lock is free *)
(* and the next trigger_batch call succeeds.                               *)
(***************************************************************************)
C2_LockReleasedOnEveryExit ==
    (ActiveWorkers = {} /\ CallersInside = {}) => ~lock

(***************************************************************************)
(* C3 (as the code has it). process_document never lets an exception       *)
(* out: whatever stage fails or times out, it returns a result whose       *)
(* status is done, error or skipped. The status is error when the parse    *)
(* times out, when an exception leaves _pipeline, and when the download    *)
(* or the OCR fails with no text of an earlier run and no Paperless text   *)
(* of 40 characters to fall back on; none of these is reported as done.    *)
(* A download or OCR failure with such a text, and a failure of the logo   *)
(* identification or of the tagging, are absorbed: the pipeline goes on.   *)
(***************************************************************************)
TimedOut == {f \in dfailed : f[2] = "timeout"}
OcrPhaseFailed == \E k \in FailureKinds : <<"download", k>> \in dfailed \/ <<"ocr", k>> \in dfailed
NoFallbackText == din.doc_ocr = "none" /\ ~has_text(din)
C3_NoEscapeStatus ==
    /\ dpc # "propagated"
    /\ dpc = "returned" =>
          /\ dres.status \in {"done", "error", "skipped"}
          /\ <<"parse", "timeout">> \in dfailed => dres.status = "error"
          /\ dexc # "none" => dres.status = "error"
          /\ (OcrPhaseFailed /\ NoFallbackText) => dres.status = "error"
          /\ dres.status = "done" =>
                \A f \in dfailed : f[1] \in {"download", "ocr", "logo", "tag", "persist"}
          /\ (dres.status = "done" /\ <<"persist", "exception">> \in dfailed) =>
                (ddoc_ocr # "none" /\ dmethod = "cached")

\* C3 as stated: every timeout of a stage, and every exception that no stage
\* handles, ends in status error and never in done with is_receipt = false.
C3_TimeoutAlwaysError ==
    /\ dpc # "propagated"
    /\ dpc = "returned" =>
          /\ dres.status \in {"done", "error", "skipped"}
          /\ (TimedOut # {} \/ dexc # "none") => dres.status = "error"

\* A parse that timed out after a logo identification that timed out too:
\* the result is error.
C3_Witness ==
    /\ dpc = "returned"
    /\ <<"logo", "timeout">> \in dfailed
    /\ <<"parse", "timeout">> \in dfailed
    /\ dres.status = "error"
(***************************************************************************)
(* C4. Every receipt result that process returns has total, pre_tax, gst,  *)
(* qst, pst and hst all >= 0 and total >= pre_tax, whatever the input      *)
(* fields held, strings repaired by the OCR digit repair included.         *)
(***************************************************************************)
\* The number that an output field holds (None counts as 0).
ValueOf(x) ==
    IF x.t = "num" THEN x.v
    ELSE IF x.t = "str" /\ IsFloatLiteral(x.s) THEN FloatHundredths(x.s)
    ELSE 0

C4_NonNegativeTotalAbovePreTax ==
    (vpc = "done" /\ vout.is_receipt) =>
        /\ \A f \in {"total", "pre_tax", "gst", "qst", "pst", "hst"} : ValueOf(vout[f]) >= 0
        /\ ValueOf(vout.total) >= ValueOf(vout.pre_tax)

(***************************************************************************)
(* C5 (as the code has it). Structured parsing by the model is a bounded   *)
(* retry: the parse prompt is sent once; the correction prompt is sent at  *)
(* most once, second, and only while no answer has given a JSON value;     *)
(* when the answer to it gives none either, no further prompt is sent and  *)
(* the result is what the validator makes of the deterministic values      *)
(* alone at the base confidence 0.4: a receipt with no field of the model, *)
(* whose confidence is 0.4 after the validator's penalties and bonuses.    *)
(***************************************************************************)
PromptCount(kind) == Cardinality({i \in 1..Len(pprompts) : pprompts[i] = kind})
BoundedRetry ==
    /\ PromptCount("parse") <= 1
    /\ PromptCount("correction") <= 1
    /\ \A i \in 1..Len(pprompts) :
          /\ pprompts[i] = "parse" => i = 1
          /\ pprompts[i] = "correction" => i = 2
    /\ ppc \in {"retry", "degrade"} => pparsed = <<>>
    /\ ppc = "retry" => pprompts = <<"parse">>
    /\ ppc = "degrade" => pprompts = <<"parse", "correction">>
DegradedResult ==
    ppath = "degraded" =>
        /\ ppc = "done"
        /\ pprompts = <<"parse", "correction">>
        /\ pparsed = <<>>
        /\ pres = process(det_base(pdet, DEGRADED_CONFIDENCE), ptext)
        /\ pres.is_receipt
        /\ pres.vendor = process_vendor(_clean_vendor(pdet.vendor), ptext)
        /\ pres.total = or_zero(pdet.total)
C5_BoundedRetryDegraded == BoundedRetry /\ DegradedResult

\* C5 as stated: the degraded result has the fixed confidence 0.4.
C5_DegradedConfidenceFixed ==
    ppath = "degraded" => pres.confidence = DEGRADED_CONFIDENCE

\* A degraded result whose confidence the validator moved off 0.4.
C5_Witness ==
    /\ ppath = "degraded"
    /\ pprompts = <<"parse", "correction">>
    /\ pres.confidence # DEGRADED_CONFIDENCE

(***************************************************************************)
(* C6. The model is prompted only when the deterministic pre-scan, after   *)
(* a usable logo hint has filled an empty vendor, lacks vendor, date or    *)
(* total: when all three are there, PaddleOCRClient.parse_receipt returns  *)
(* the validator's result of the deterministic values (base confidence     *)
(* 0.85 with a tax, 0.75 without) and no prompt is sent.                   *)
(***************************************************************************)
AllThreePresent == pdet.vendor # NoStr /\ pdet.date # NoDate /\ Truthy(pdet.total)
C6_ModelOnlyWhenAnchorsMissing ==
    ppc # "call" /\ ~pshort =>
        /\ pdet = apply_logo_hint(pdet0, plogo)
        /\ (pprompts # <<>> \/ ppc \in {"ollama", "retry", "merge", "second_pass", "degrade"})
              => ~AllThreePresent
        /\ AllThreePresent =>
              /\ ppc = "done"
              /\ pprompts = <<>>
              /\ ppath = "deterministic"
              /\ pres = process(det_base(pdet, IF has_tax(pdet) THEN 85 ELSE 75), ptext)
              /\ pres.date = pdet.date

\* The result without a model call, the vendor being the logo hint.
C6_Witness ==
    /\ ppc = "done"
    /\ ppath = "deterministic"
    /\ pprompts = <<>>
    /\ pdet0.vendor = NoStr
    /\ pdet.vendor = plogo
(***************************************************************************)
(* C7. In the merge, vendor and date take the deterministic value whenever *)
(* the pre-scan found one: the model's vendor (date) is kept only if the   *)
(* deterministic vendor (date) is null.                                    *)
(***************************************************************************)
C7_DeterministicVendorDateWins ==
    mpc = "merged" =>
        /\ mdet.vendor # NoStr => mout.vendor = mdet.vendor
        /\ mdet.date # NoDate => mout.date = mdet.date
        /\ mdet.vendor = NoStr => mout.vendor = mllm.vendor
        /\ mdet.date = NoDate => mout.date = mllm.date

(***************************************************************************)
(* C8. In the merge, when the deterministic total and the model's total    *)
(* are both present and differ by more than 1.00 the merged total is the   *)
(* deterministic one; when they differ by at most 1.00 the model's total   *)
(* is kept; when the model's total is absent (0) and a deterministic total *)
(* exists the merged total is the deterministic one.                       *)
(***************************************************************************)
C8_TotalTolerance ==
    mpc = "merged" =>
        /\ (Truthy(mdet.total) /\ Truthy(mllm.total)
                /\ Abs(mdet.total.v - mllm.total.v) > 100) => mout.total = mdet.total
        /\ (Truthy(mdet.total) /\ Truthy(mllm.total)
                /\ Abs(mdet.total.v - mllm.total.v) <= 100) => mout.total = mllm.total
        /\ (Truthy(mdet.total) /\ ~Truthy(mllm.total)) => mout.total = mdet.total

(***************************************************************************)
(* C9. The follow-up prompt is sent at most once per parse, and only when  *)
(* the confidence after post-processing is below 0.65 and vendor, date or  *)
(* total is missing; its answer is written only into missing fields, and   *)
(* each of vendor, date and total that was resolved before the follow-up   *)
(* has the same value in the returned result.                              *)
(***************************************************************************)
Resolved == {"vendor", "date", "total"} \ missing_of(ppost)
C9_FollowUpFillsOnlyMissing ==
    /\ PromptCount("followup") <= 1
    /\ PromptCount("followup") = 1 =>
          /\ ppost # <<>>
          /\ ppost.confidence < 65
          /\ missing_of(ppost) # {}
    /\ ppatched # <<>> =>
          \A f \in DOMAIN ppost \ missing_of(ppost) : ppatched[f] = ppost[f]
    /\ (ppc = "done" /\ PromptCount("followup") = 1) =>
          \A f \in Resolved : pres[f] = ppost[f]
(***************************************************************************)
(* C11  Bounded retries of the engine initialization                       *)
(***************************************************************************)
PaddleCalls == {t \in Threads : ith[t].kind = "paddle"}

\* A cleanup ran before every construction of the call, hence between any two.
CleanupBeforeEachConstruct(trail) ==
    \A i \in 1..Len(trail) :
        trail[i] = "construct" => (i > 1 /\ trail[i - 1] = "cleanup")

\* The step in which thread t returns False from _init_paddle.
ReturnsFalse(t) ==
    /\ ith[t].pc = "p_try"
    /\ ith'[t].pc = "idle" /\ ith'[t].ret = "false"

C11_Attempts ==
    \A t \in PaddleCalls :
        /\ ith[t].attempt <= max_retries
        /\ Constructs(ith[t].trail) <= max_retries
        /\ CleanupBeforeEachConstruct(ith[t].trail)
        \* False is returned only after an attempt of this very call, whatever
        \* an earlier call returned, and sends the document to the fallback
        /\ ith[t].ret = "false" =>
              /\ Constructs(ith[t].trail) \in 1..max_retries
              /\ ith[t].path = "vision_fallback"
        /\ ith[t].built => Constructs(ith[t].trail) \in 1..max_retries
        /\ ith[t].path = "run_paddle_ocr" => ith[t].ret = "true"

C11_FailureLeavesNotReady ==
    \A t \in Threads :
        ReturnsFalse(t) =>
            /\ ~paddle_ready'[ith[t].client]
            /\ paddle_engine'[ith[t].client] = paddle_engine[ith[t].client]
            /\ paddle_lock' = 0

\* C11: a failed engine initialization is attempted at most 3 times in one
\* call of _init_paddle, with a cleanup of the partial downloads before every
\* attempt; when the attempts end without an engine, _init_paddle returns
\* False with the ready flag false and the lock released, and ocr_document
\* goes to the vision fallback; the failure is not remembered: a later call
\* that finds no engine attempts the construction again.
C11_BoundedRetriesNotCached ==
    /\ []C11_Attempts
    /\ [][C11_FailureLeavesNotReady]_vars

\* A call of _init_paddle failed after three attempts, and the same thread's
\* next call constructed the engine and ocr_document went on with it.
C11_Witness ==
    \E t \in PaddleCalls :
        /\ ith[t].exhausted_before
        /\ ith[t].pc = "idle" /\ ith[t].ret = "true" /\ ith[t].built
        /\ Constructs(ith[t].trail) >= 1
        /\ ith[t].path = "run_paddle_ocr"
(***************************************************************************)
(* C12. A timeout of a call made through _run_with_timeout is handled by   *)
(* the stage that made the call.  A timeout of the logo identification is  *)
(* logged and the pipeline goes on.  A timeout of the download or of the   *)
(* OCR is a failure of the OCR phase: the pipeline goes on with the text   *)
(* of an earlier run, else with the Paperless text of 40 characters or     *)
(* more, and only when there is neither does the document end with the     *)
(* result error.  A timeout of the structured parse has no fallback: the   *)
(* document ends with the result error, "parse timeout".                   *)
(***************************************************************************)
OnlyTimeout(stage) == dfailed = {<<stage, "timeout">>}

\* The document did not end with an error, the error that parse_receipt
\* itself reports on a text that is too short aside.
NotAborted == dres.status = "error" => dres.error = "text_too_short"

C12_TimeoutHandledByStage ==
    dpc = "returned" =>
        /\ OnlyTimeout("logo") => NotAborted
        /\ (OnlyTimeout("download") \/ OnlyTimeout("ocr")) =>
              IF din.doc_ocr # "none"
                 THEN NotAborted /\ dmethod = "cached"
              ELSE IF din.paperless = "long"
                 THEN NotAborted /\ dmethod = "paperless_fallback"
              ELSE dres = [status |-> "error", error |-> "ocr"]
        /\ <<"parse", "timeout">> \in dfailed => dres.status = "error"
        /\ OnlyTimeout("parse") => dres = [status |-> "error", error |-> "parse timeout"]

\* The statement for every stage alike: a timeout alone never ends the
\* document with an error.
C12_TimeoutNeverAborts ==
    dpc = "returned" =>
        \A stage \in {"download", "ocr", "logo", "parse"} : OnlyTimeout(stage) => NotAborted

\* An OCR that timed out on a document with no text of an earlier run: the
\* Paperless text was parsed and the document is a receipt.
C12_Witness ==
    /\ dpc = "returned"
    /\ OnlyTimeout("ocr")
    /\ din.doc_ocr = "none"
    /\ dmethod = "paperless_fallback"
    /\ dres.status = "done"
    /\ dres.is_receipt
(***************************************************************************)
(* C13  Sequential processing                                              *)
(***************************************************************************)
\* C13: at no time are two recognition calls (OCR, logo identification,
\* structured parse) that the same processor started executing together, also
\* after _run_with_timeout stopped waiting for a call that timed out and the
\* pipeline moved on to the next stage or the next document.
C13_OneRecognitionCallAtATime == Cardinality(RunningRecognition) <= 1
(***************************************************************************)
(* C14. The validator invents no total, pre_tax or date silently: a total, *)
(* a pre_tax or a date of the output that the input did not hold (absent,  *)
(* or unparseable) comes with its inference code, MATH_INFERRED_TOTAL for  *)
(* total = pre_tax + tax_sum, MATH_INFERRED_PRETAX for pre_tax = total -   *)
(* tax_sum strictly between 0 and total, DATE_FROM_OCR for the date found  *)
(* in the text; otherwise the field stays absent, an absent date being     *)
(* reported with DATE_MISSING and an absent total with MATH_MISSING_TOTAL. *)
(* An absent pre_tax that cannot be inferred is left absent unreported.    *)
(***************************************************************************)
\* The amounts as _validate_math reads them: after the digit repair, which
\* zeroes what it cannot repair, and the tax sanity step.
ValidatorRead == process_sanitized(_fix_numeric_ocr_errors(vraw, <<>>)).data

AmountAbsentIn(f) == _to_float(ValidatorRead[f]) = 0
AmountAbsentOut(f) == _to_float(vout[f]) = 0

DateAbsentIn == vraw.date = NoDate \/ _parse_date_string(vraw.date) = NoDate

\* Some warning of the output is about the field f.
ReportedOn(f) == \E i \in 1..Len(vout.warnings) : vout.warnings[i][2] = f

C14_TotalNotInvented ==
    AmountAbsentIn("total") =>
        IF AmountAbsentOut("total")
           THEN /\ has_warning(vout.warnings, "MATH_MISSING_TOTAL")
                /\ ~has_warning(vout.warnings, "MATH_INFERRED_TOTAL")
           ELSE /\ has_warning(vout.warnings, "MATH_INFERRED_TOTAL")
                /\ ~has_warning(vout.warnings, "MATH_MISSING_TOTAL")
                /\ ~AmountAbsentIn("pre_tax")
                /\ vout.total = Num(_to_float(ValidatorRead.pre_tax)
                                    + tax_sum_of(ValidatorRead))

C14_PreTaxNotInvented ==
    AmountAbsentIn("pre_tax") =>
        IF AmountAbsentOut("pre_tax")
           THEN ~has_warning(vout.warnings, "MATH_INFERRED_PRETAX")
           ELSE /\ has_warning(vout.warnings, "MATH_INFERRED_PRETAX")
                /\ vout.pre_tax = Num(_to_float(ValidatorRead.total)
                                      - tax_sum_of(ValidatorRead))
                /\ 0 < vout.pre_tax.v
                /\ vout.pre_tax.v < _to_float(ValidatorRead.total)

C14_DateNotInvented ==
    DateAbsentIn =>
        IF vout.date = NoDate
           THEN /\ has_warning(vout.warnings, "DATE_MISSING")
                /\ ~has_warning(vout.warnings, "DATE_FROM_OCR")
                /\ _scan_text_for_date(vocr) = NoDate
           ELSE /\ has_warning(vout.warnings, "DATE_FROM_OCR")
                /\ ~has_warning(vout.warnings, "DATE_MISSING")
                /\ vout.date = _scan_text_for_date(vocr)

C14_NoSilentInvention ==
    (vpc = "done" /\ vraw.is_receipt) =>
        /\ C14_TotalNotInvented
        /\ C14_PreTaxNotInvented
        /\ C14_DateNotInvented

\* The statement with its last clause applied to pre_tax as well: a pre_tax
\* that stays absent is reported by some warning about it.
C14_AbsentAlwaysReported ==
    (vpc = "done" /\ vraw.is_receipt) =>
        /\ C14_NoSilentInvention
        /\ (AmountAbsentIn("pre_tax") /\ AmountAbsentOut("pre_tax")) => ReportedOn("pre_tax")

\* A pre_tax inferred from a total and a tax, beside a date that the input
\* held: the inference is recorded.
C14_Witness ==
    /\ vpc = "done"
    /\ vraw.is_receipt
    /\ AmountAbsentIn("pre_tax")
    /\ ~AmountAbsentOut("pre_tax")
    /\ has_warning(vout.warnings, "MATH_INFERRED_PRETAX")
(***************************************************************************)
(* C15. The Paperless text is the last resort of the OCR phase: when the   *)
(* recognition fails or gives no usable text, on a document without a text *)
(* of an earlier run and with a Paperless text of 40 characters or more,   *)
(* the text handed to the parser is the Paperless text, with the method    *)
(* paperless_fallback, and the document does not end as skipped or failed  *)
(* for lack of text.                                                       *)
(***************************************************************************)
\* The download or ocr_document raised or timed out, or ocr_document
\* returned a text of fewer than 40 characters.
RecognitionFailed ==
    \/ OcrPhaseFailed
    \/ dmethod = "paddle" /\ dtext \in {"none", "short"}

EndedForLackOfText ==
    \/ dres.status = "skipped"
    \/ dres.status = "error" /\ dres.error \in {"ocr", "text_too_short"}

C15_PaperlessTextLastResort ==
    (dpc = "returned" /\ din.paperless = "long" /\ din.doc_ocr = "none" /\ RecognitionFailed) =>
        /\ dmethod = "paperless_fallback"
        /\ dtext = "long"
        /\ ~EndedForLackOfText
(***************************************************************************)
(* C16. End to end: for a receipt text with the line IGA among its first   *)
(* three lines, a date that the pre-scan recognises, and the lines         *)
(* SOUS-TOTAL 41,53, TPS 2,08, TVQ 4,14 and TOTAL 47,75 at the bottom,     *)
(* parse_receipt returns vendor IGA, pre_tax 41.53, gst 2.08, qst 4.14,    *)
(* total 47.75, no mismatch warning and a confidence >= 0.75, from the     *)
(* deterministic values alone: no prompt is sent to the model.             *)
(***************************************************************************)
IgaReceipt ==
    /\ Len(rlines) >= 5
    /\ \E i \in 1..3 : rlines[i] = "iga"
    /\ SubSeq(rlines, Len(rlines) - 3, Len(rlines)) = <<"subtotal", "tps", "tvq", "total">>

Dated == \E i \in 1..Len(rlines) : rlines[i] = "date"

IgaResult ==
    /\ ppath = "deterministic"
    /\ pprompts = <<>>
    /\ pres.is_receipt
    /\ pres.vendor = IGA
    /\ pres.pre_tax = Num(4153)
    /\ pres.gst = Num(208)
    /\ pres.qst = Num(414)
    /\ pres.total = Num(4775)
    /\ ~has_warning(pres.warnings, "MATH_MISMATCH")
    /\ pres.math_valid
    /\ pres.confidence >= 75

C16_DatedIgaReceipt ==
    (IgaReceipt /\ Dated) =>
        /\ ppc \in {"scan", "call", "done"}
        /\ pprompts = <<>>
        /\ ppc = "done" => IgaResult

\* The statement for every text of that shape, dated or not.
C16_IgaReceipt ==
    IgaReceipt =>
        /\ ppc \in {"scan", "call", "done"}
        /\ pprompts = <<>>
        /\ ppc = "done" => IgaResult

\* The dated receipt, parsed without the model at full confidence.
C16_Witness ==
    /\ IgaReceipt
    /\ Dated
    /\ ppc = "done"
    /\ ppath = "deterministic"
    /\ pprompts = <<>>
    /\ pres.total = Num(4775)
    /\ pres.pre_tax = Num(4153)
    /\ pres.confidence = 100
(***************************************************************************)
(* C17. The confidence of every result that parse_receipt returns lies in  *)
(* [0, 1], on every path: the deterministic values alone, the model's      *)
(* answer merged, the follow-up pass, the degraded result after answers    *)
(* without JSON, a result that is no receipt, a text that is too short,    *)
(* and the result built after an exception of the model call.              *)
(***************************************************************************)
ParsePaths ==
    {"text_too_short", "deterministic", "model", "second_pass", "degraded", "exception"}

C17_ConfidenceInUnitInterval ==
    ppc = "done" =>
        /\ ppath \in ParsePaths
        /\ pres.confidence \in 0..100
        /\ ppath \in {"model", "second_pass"} => ppost.confidence \in 0..100

\* A confidence of 2.5 in the model's answer to a complete receipt, returned
\* as 1.0: the clamps of _sanitize and _adjust_confidence both acted.
C17_Witness ==
    /\ ppc = "done"
    /\ ppath = "model"
    /\ pparsed.confidence = Num(250)
    /\ pres.is_receipt
    /\ pres.vendor # NoStr /\ pres.date # NoDate /\ pres.total = Num(1000)
    /\ pres.confidence = 100
(***************************************************************************)
(* The amounts that _validate_math is called on, and what the confidence   *)
(* computation adds and subtracts.                                         *)
(***************************************************************************)
MathTotal == _to_float(xpre.data.total)
MathPreTax == _to_float(xpre.data.pre_tax)
MathTaxSum ==
    _to_float(xpre.data.gst) + _to_float(xpre.data.pst)
    + _to_float(xpre.data.hst) + _to_float(xpre.data.qst)
MathDiff == Abs(MathPreTax + MathTaxSum - MathTotal)
MathCodes ==
    {"MATH_ADJUSTED_PRETAX", "MATH_MISMATCH", "MATH_INFERRED_PRETAX", "MATH_INFERRED_TOTAL",
     "MATH_MISSING_TOTAL"}
WarningCount(w, code) == Cardinality({i \in 1..Len(w) : w[i][1] = code})
AmountFields == {"total", "gst", "pst", "hst", "qst", "pre_tax"}
AmountsUnchanged == \A f \in AmountFields : xval.data[f] = xpre.data[f]
Clamp01(c) == IF c < 0 THEN 0 ELSE IF c > 100 THEN 100 ELSE c
Bonuses(d) ==
    (IF d.vendor # NoStr THEN 5 ELSE 0) + (IF d.date # NoDate THEN 5 ELSE 0)
    + (IF _to_float(d.total) > 0 THEN 5 ELSE 0)
    + (IF _to_float(d.gst) > 0 \/ _to_float(d.hst) > 0 \/ _to_float(d.qst) > 0 THEN 5 ELSE 0)
PenaltyPerWarning(w) ==
    15 * WarningCount(w, "DATE_MISSING") + 10 * WarningCount(w, "DATE_PARSE_FAILED")
    + 20 * WarningCount(w, "MATH_MISMATCH") + 25 * WarningCount(w, "MATH_MISSING_TOTAL")
    + 15 * WarningCount(w, "OCR_UNPARSEABLE")
    + 10 * (WarningCount(w, "TAX_SANITY_ZEROED") + WarningCount(w, "TAX_SANITY_CAPPED"))
PenaltyPerCategory(w) ==
    (IF WarningCount(w, "DATE_MISSING") > 0 THEN 15 ELSE 0)
    + (IF WarningCount(w, "DATE_PARSE_FAILED") > 0 THEN 10 ELSE 0)
    + (IF WarningCount(w, "MATH_MISMATCH") > 0 THEN 20 ELSE 0)
    + (IF WarningCount(w, "MATH_MISSING_TOTAL") > 0 THEN 25 ELSE 0)
    + (IF WarningCount(w, "OCR_UNPARSEABLE") > 0 THEN 15 ELSE 0)
    + (IF WarningCount(w, "TAX_SANITY_ZEROED") + WarningCount(w, "TAX_SANITY_CAPPED") > 0
          THEN 10 ELSE 0)

(***************************************************************************)
(* C18. Arithmetic validation with pre_tax and total both present and      *)
(* d = |pre_tax + tax_sum - total|: when d <= 0.15 no amount is changed    *)
(* and no math warning is recorded; when 0.15 < d <= 2.00 pre_tax is set   *)
(* to total - tax_sum with a MATH_ADJUSTED_PRETAX warning, no mismatch     *)
(* warning or penalty, and _math_valid true.                               *)
(***************************************************************************)
C18_AcceptOrAdjust ==
    (xpc = "done" /\ MathTotal > 0 /\ MathPreTax > 0) =>
        /\ MathDiff <= MATH_TOLERANCE =>
              /\ AmountsUnchanged
              /\ xval.warnings = xpre.nd.warnings
              /\ xout.math_valid
        /\ (MathDiff > MATH_TOLERANCE /\ MathDiff <= 200) =>
              /\ xval.data.pre_tax = Num(MathTotal - MathTaxSum)
              /\ \A f \in AmountFields \ {"pre_tax"} : xval.data[f] = xpre.data[f]
              /\ xval.warnings = Append(xpre.nd.warnings, <<"MATH_ADJUSTED_PRETAX", "pre_tax">>)
              /\ xout.math_valid
              /\ xout.confidence
                    = Clamp01(xraw.confidence - PenaltyPerWarning(xpre.nd.warnings)
                              + Bonuses(xval.data))

(***************************************************************************)
(* C19. Hard mismatch: with pre_tax and total both present and             *)
(* |pre_tax + tax_sum - total| > 2.00 the validator records a              *)
(* MATH_MISMATCH warning, leaves total, pre_tax and every tax unchanged,   *)
(* subtracts the penalty 0.20 from the confidence and returns              *)
(* _math_valid = false.                                                    *)
(***************************************************************************)
C19_HardMismatch ==
    (xpc = "done" /\ MathTotal > 0 /\ MathPreTax > 0 /\ MathDiff > 200) =>
        /\ xval.warnings = Append(xpre.nd.warnings, <<"MATH_MISMATCH", "pre_tax">>)
        /\ AmountsUnchanged
        /\ \A f \in AmountFields : xout[f] = xpre.data[f]
        /\ ~xout.math_valid
        /\ xout.confidence
              = Clamp01(xraw.confidence - PenaltyPerWarning(xpre.nd.warnings) - 20
                        + Bonuses(xval.data))

\* pre_tax 10.00 with a tax of 1.00 against the total 50.00: the mismatch,
\* and a confidence 0.20 lower that the clamp leaves alone.
C19_Witness ==
    /\ xpc = "done"
    /\ xraw.pre_tax = Num(1000) /\ xraw.total = Num(5000) /\ MathTaxSum = 100
    /\ WarningCount(xout.warnings, "MATH_MISMATCH") = 1
    /\ ~xout.math_valid
    /\ xout.confidence = xraw.confidence - 20 + Bonuses(xval.data)
    /\ xout.confidence > 0 /\ xout.confidence < 100

(***************************************************************************)
(* C20 (as the code has it). The confidence computation subtracts the      *)
(* fixed penalty of its category for each warning recorded (date missing   *)
(* 0.15, date parse failure 0.10, math mismatch 0.20, missing total 0.25,  *)
(* unparseable value 0.15, tax sanity 0.10): two taxes zeroed by the tax   *)
(* sanity cost 0.20 in total.                                              *)
(***************************************************************************)
C20_PenaltyPerWarning ==
    xpc = "done" =>
        xout.confidence
            = Clamp01(xraw.confidence - PenaltyPerWarning(xout.warnings) + Bonuses(xval.data))

\* C20 as stated: each category is subtracted at most once.
C20_PenaltyOncePerCategory ==
    xpc = "done" =>
        xout.confidence
            = Clamp01(xraw.confidence - PenaltyPerCategory(xout.warnings) + Bonuses(xval.data))

\* Two taxes set to zero by the tax sanity, and a confidence above 0.
C20_Witness ==
    /\ xpc = "done"
    /\ WarningCount(xout.warnings, "TAX_SANITY_ZEROED")
          + WarningCount(xout.warnings, "TAX_SANITY_CAPPED") = 2
    /\ xout.confidence > 0
    /\ xout.confidence = xraw.confidence - PenaltyPerWarning(xout.warnings) + Bonuses(xval.data)
(***************************************************************************)
(* C21  The bonuses of the confidence computation                          *)
(***************************************************************************)
AnyTaxPositive(d) == \E t \in {"gst", "qst", "pst", "hst"} : _to_float(d[t]) > 0
BonusesAnyTax(d) ==
    (IF d.vendor # NoStr THEN 5 ELSE 0) + (IF d.date # NoDate THEN 5 ELSE 0)
    + (IF _to_float(d.total) > 0 THEN 5 ELSE 0)
    + (IF AnyTaxPositive(d) THEN 5 ELSE 0)

\* C21: the confidence computation adds 0.05 for each of four conditions:
\* a vendor, a date, a total above 0, and any tax field (gst, qst, pst or
\* hst) above 0; the result is clamped to [0, 1].
C21_BonusForAnyTax ==
    xpc = "done" =>
        xout.confidence
            = Clamp01(xraw.confidence - PenaltyPerWarning(xout.warnings)
                      + BonusesAnyTax(xval.data))
(***************************************************************************)
(* C22  Tax sanity                                                         *)
(***************************************************************************)
TaxWithinTotal(d) ==
    \A f \in {"gst", "pst", "hst", "qst"} :
        /\ _to_float(d[f]) < _to_float(d.total)
        /\ 100 * _to_float(d[f]) <= MAX_TAX_RATIO_PCT * _to_float(d.total)

\* C22: in every validated receipt with a total above 0, the total that the
\* validator inferred from pre_tax + tax_sum included, no tax field is equal
\* to or above the total or above 50% of it.
C22_NoTaxAboveHalfOfTotal ==
    (xpc = "done" /\ _to_float(xout.total) > 0) => TaxWithinTotal(xout)
(***************************************************************************)
(* C23  Total resolution                                                   *)
(***************************************************************************)
Scanned == ppc = "scanned"
\* The lines with an amount above zero under a total label, and the
\* priorities of the total labels found on a line.
TotalPriorities(i) == {l[2] : l \in {k \in LabelsOf(rlines[i]) : k[1] = "total"}}
TotalLinesOf == {i \in 1..Len(rlines) : _parse_amount(rlines[i]).v > 0 /\ TotalPriorities(i) # {}}
HighestTotalPriority(i) ==
    \E p \in TotalPriorities(i) : \A j \in TotalLinesOf : \A q \in TotalPriorities(j) : p >= q
BestTotalLines == {i \in TotalLinesOf : HighestTotalPriority(i)}

\* C23: the resolved total is the amount of the bottom-most line among the
\* total-label matches of the globally highest priority; a match of lower
\* priority never wins wherever it stands; of two TOTAL lines of the same
\* highest priority at the indices 5 and 40 the one at index 40 is taken.
C23_TotalBottomMostOfHighestPriority ==
    Scanned =>
        /\ TotalLinesOf = {} => pdet0.total = NoneV
        /\ TotalLinesOf # {} =>
              \E i \in BestTotalLines :
                  /\ \A j \in BestTotalLines : j <= i
                  /\ pdet0.total = _parse_amount(rlines[i])
        /\ \A a, b \in {"total", "total2"} :
              rlines = TotalsAt5And40(a, b) => pdet0.total = _parse_amount(b)

\* TOTAL 50,00 at index 5 and TOTAL 47,75 at index 40: 47.75 is the total.
C23_Witness ==
    /\ Scanned
    /\ rlines = TotalsAt5And40("total2", "total")
    /\ pdet0.total = Num(4775)

(***************************************************************************)
(* C24  Date resolution                                                    *)
(***************************************************************************)
\* The lines that hold a date and are not rejected.
DateLinesOf ==
    {i \in 1..Len(rlines) : rlines[i] \in {"date", "billdate", "plaindate"}}
\* +10 for a confirmed label, +5 for a clock time, +2 in the first 40% of
\* the lines (the index counted from 0).
C24_Score(i) ==
    (IF rlines[i] = "billdate" THEN 10 ELSE 0)
    + (IF rlines[i] \in {"date", "duedate"} THEN 5 ELSE 0)
    + (IF 10 * (i - 1) < 4 * Len(rlines) THEN 2 ELSE 0)
BestDateLines == {i \in DateLinesOf : \A j \in DateLinesOf : C24_Score(i) >= C24_Score(j)}

\* C24: a date on a line of the not-a-transaction-date vocabulary is never
\* selected; among the other dates the one of the highest score is taken,
\* and of equal scores the one on the earliest line; "Next Bill Date:
\* 2025-03-01" never beats "Bill Date: 2025-02-01", in either order.
C24_DateByScoreRejectedNever ==
    Scanned =>
        /\ pdet0.date \notin {NextBillDate, DueDate}
        /\ DateLinesOf = {} => pdet0.date = NoDate
        /\ DateLinesOf # {} =>
              \E i \in BestDateLines :
                  /\ \A j \in BestDateLines : i <= j
                  /\ pdet0.date = DateOf(rlines[i])
        /\ (\E i \in 1..Len(rlines) : rlines[i] = "billdate") => pdet0.date = BillDate

\* The next bill date on the line above the bill date: the bill date is taken.
C24_Witness ==
    /\ Scanned
    /\ rlines = <<"iga", "nextbill", "billdate">>
    /\ pdet0.date = BillDate
(***************************************************************************)
(* C25: the order of the recognition calls in ocr_document                 *)
(***************************************************************************)
TrailIndex == 1..Len(otrail)
VisionCalls == {"logo", "vision_primary", "vision_retry", "vision_bottom", "vision_raw"}
\* The local engine was asked and did not give MIN_OCR_LENGTH characters:
\* it could not be made ready, or its text (empty when it raised) is short.
LocalEngineFailedBefore(i) ==
    \E j \in 1..(i - 1) :
        \/ otrail[j] = <<"init_paddle", 0>>
        \/ otrail[j][1] = "paddle" /\ otrail[j][2] < MIN_OCR_LENGTH
LengthOf(call) ==
    IF \E i \in TrailIndex : otrail[i][1] = call
       THEN (CHOOSE e \in {otrail[i] : i \in TrailIndex} : e[1] = call)[2]
       ELSE 0
Called(call) == \E i \in TrailIndex : otrail[i][1] = call
Methods == {"pdf_direct", "paddleocr", "ollama_vision_preprocessed", "ollama_vision",
            "ollama_failed", "paperless_fallback", "failed"}

C25_Order ==
    \* the local engine comes first, unless the PDF cannot be made an image
    /\ (okind \in {"image", "pdf_scan"} /\ otrail # <<>>) => otrail[1][1] = "init_paddle"
    /\ \A i \in TrailIndex :
          otrail[i][1] \in VisionCalls =>
              okind = "pdf_unrasterized" \/ LocalEngineFailedBefore(i)
    /\ okind = "pdf_unrasterized" => ~Called("init_paddle") /\ ~Called("paddle")
    /\ okind = "pdf_text" => otrail = <<>>
    \* the second prompt only after a short answer to the first
    /\ \A i \in TrailIndex :
          otrail[i][1] = "vision_retry" =>
              \E j \in 1..(i - 1) :
                  otrail[j][1] = "vision_primary" /\ otrail[j][2] < MIN_OCR_LENGTH
    \* the longer of the two answers is kept, the first on equal length
    /\ ores.method = "ollama_vision_preprocessed" =>
          /\ Len(ofirst) = 1
          /\ ofirst[1].call =
                IF LengthOf("vision_retry") > LengthOf("vision_primary")
                   THEN "vision_retry" ELSE "vision_primary"
          /\ ofirst[1].len = LengthOf(ofirst[1].call)
    \* the unprocessed bytes only after two empty answers
    /\ Called("vision_raw") =>
          /\ Called("vision_primary") /\ LengthOf("vision_primary") = 0
          /\ Called("vision_retry") /\ LengthOf("vision_retry") = 0
    \* a call that has returned has a text and a method
    /\ (opc = "returned") = (ores.method # "none")
    /\ ores.method \in Methods \cup {"none"}
    /\ ores.method \in {"failed", "ollama_failed"} <=> (opc = "returned" /\ ores.text = EmptyText)

RescanCalls == {"paddle_bottom", "vision_bottom"}
Rescanned == \E i \in TrailIndex : otrail[i][1] \in RescanCalls
\* The text of the first pass is whole: one piece, as long as the call gave it.
FirstPassWhole ==
    /\ Len(ofirst) = 1
    /\ ofirst[1].call \in {"paddle", "vision_primary", "vision_retry"}
    /\ ofirst[1].len = LengthOf(ofirst[1].call)
    /\ ofirst[1].len > 0
StartsWithFirstPass(text) ==
    /\ Len(text) >= Len(ofirst)
    /\ SubSeq(text, 1, Len(ofirst)) = ofirst
\* The first-pass text, the marker, and what the rescan read.
RescanAppended(text) ==
    /\ Len(text) = 3
    /\ text[2] = RescanMarker[1]
    /\ text[3].call \in RescanCalls
    /\ Called(text[3].call)
    /\ text[3].len = LengthOf(text[3].call)
    /\ text[3].len > 0

\* C26: the bottom region is read again only after a pass that gave a text
\* in which the quick pre-scan finds no total; the text that ocr_document
\* returns from a successful pass starts with the whole text of that pass
\* (on the vision path with its decimal commas written as points) and is
\* either that text alone or that text, the marker '[BOTTOM REGION RESCAN]'
\* and the text of the rescan.
C26_RescanAppendedNeverReplaces ==
    /\ Rescanned => FirstPassWhole /\ NoTotalIn(ofirst)
    /\ ores.method \in {"paddleocr", "ollama_vision_preprocessed"} =>
          /\ FirstPassWhole
          /\ StartsWithFirstPass(ores.text)
          /\ ores.text = ofirst \/ (Rescanned /\ RescanAppended(ores.text))
          /\ ~NoTotalIn(ofirst) => ~Rescanned /\ ores.text = ofirst

\* A first pass of 50 characters without a total, a rescan that found one.
C26_Witness ==
    /\ opc = "returned"
    /\ ores.method = "paddleocr"
    /\ Called("paddle_bottom")
    /\ LenOfText(ofirst) = 50
    /\ LenOfText(ores.text) = 50 + 25 + 20
    /\ ~NoTotalIn(ores.text)
(***************************************************************************)
(* C27: the status record and the batch lock                               *)
(***************************************************************************)
\* Worker threads between their _job.update(running=True) and their
\* _job["running"] = False.
MarkedRunning == {w \in Workers : wpc[w] \in {"run", "finally"}}

\* In a state: running is true exactly while one batch thread is between
\* line 26 and line 35, and then the lock is held, that thread is the only
\* one that has not ended, and no call of trigger_batch is past its acquire.
C27_RunningWithinLock ==
    /\ get_job_status.running = (MarkedRunning # {})
    /\ get_job_status.running =>
          /\ lock
          /\ Cardinality(MarkedRunning) = 1
          /\ ActiveWorkers = MarkedRunning
          /\ CallersInside = {}

\* In a step: a batch thread releases the lock only with running false, and
\* the step that sets running to false is taken by the thread that set it.
C27_CleanupBeforeRelease ==
    /\ (\E w \in Workers : wpc[w] = "release" /\ wpc'[w] = "done") =>
          ~job.running /\ lock /\ ~lock'
    /\ (job.running /\ ~job'.running) =>
          \E w \in MarkedRunning : wpc[w] = "finally" /\ wpc'[w] = "release"
    /\ (~job.running /\ job'.running) => lock /\ lock'

\* C27: whenever get_job_status reports running = true the batch lock is
\* held by the batch that set it; running is set back to false before the
\* lock is released, so the cleanup of a finished batch never overwrites the
\* running = true of a batch triggered after it.
C27_StatusConsistentWithLock == []C27_RunningWithinLock /\ [][C27_CleanupBeforeRelease]_vars

\* A second batch is running after the first one has ended.
C27_Witness ==
    /\ job.running
    /\ \E w \in Workers : wpc[w] = "done"
    /\ \E w \in Workers : wpc[w] = "run"
(***************************************************************************)
(* C28: the stored parse across runs                                       *)
(***************************************************************************)
RunIndex == 1..Len(khist)
ParsedToCompletion(run) == run.outcome \in {"not_receipt", "receipt"}

\* C28: a run reports "done" with cached = True only if an earlier run
\* parsed the same OCR text to completion without an error outcome; and a
\* run that is not forced, over the text whose parse ended in an error in
\* the run before it, parses the text again.
C28_CachedOnlyAfterCompletedParse ==
    /\ \A i \in RunIndex :
          khist[i].cached =>
              \E j \in 1..(i - 1) :
                  khist[j].text = khist[i].text /\ ParsedToCompletion(khist[j])
    /\ \A i \in RunIndex :
          (/\ i > 1
           /\ khist[i - 1].outcome = "error"
           /\ khist[i].text = khist[i - 1].text
           /\ khist[i].mode = "plain") => ~khist[i].cached
(***************************************************************************)
(* C29: last_status when process_document returns                          *)
(***************************************************************************)
TerminalStatuses == {"done", "error", "skipped"}

\* The statement over every return, a failed database call included.
StatusTerminalOnEveryReturn ==
    dpc = "returned" => dlast \in TerminalStatuses /\ dlast = dres.status

\* C29: whenever process_document has returned, normally, after the failure
\* of a stage, or from one of its two handlers, doc.last_status is one of
\* done, error and skipped and is the status of the returned result; it is
\* never left at "processing". Stated for the runs in which every database
\* call succeeded, so that the status could have been written.
C29_StatusTerminalOnReturn ==
    (dpc = "returned" /\ <<"persist", "exception">> \notin dfailed) =>
        dlast \in TerminalStatuses /\ dlast = dres.status
(***************************************************************************)
(* C30: the confidence of the follow-up path                               *)
(***************************************************************************)
\* The confidence that the model gave, as _sanitize reads it.
BaseConfidence == _sanitize(pparsed).confidence
\* The penalties and bonuses of the final fields and warnings, applied once
\* to the base confidence.
AdjustedOnce(res) ==
    _adjust_confidence([res EXCEPT !.confidence = BaseConfidence], res.warnings)

\* C30: on the follow-up path the returned confidence is the model's base
\* confidence with the penalties of the final warnings and the bonuses of
\* the final fields applied once; what the first post-processing applied is
\* not applied again when the patched result is processed again.
C30_ConfidenceNotCompounded ==
    (ppc = "done" /\ ppath = "second_pass" /\ pres.is_receipt) =>
        pres.confidence = AdjustedOnce(pres)
(***************************************************************************)
(* C10. Lazy initialization is once-guarded for racing callers on a client:*)
(* the engine is constructed under the init lock, which at most one thread *)
(* holds; a caller that found the lock taken waits for it, then sees the   *)
(* ready flag on the double-check and returns True without constructing;   *)
(* each client's engine is constructed successfully at most once.  The     *)
(* init locks are variables of their own: only _init_paddle / _init_clip   *)
(* take them, and a holder is inside that function's locked region, never  *)
(* at an acquire of another lock.                                          *)
(***************************************************************************)
PaddleLocked == {"p_dcheck", "p_try"}
ClipLocked == {"c_dcheck", "c_try"}

C10_OnceGuarded ==
    /\ \A k \in Clients : paddle_engine[k] <= 1 /\ clip_model[k] <= 1
    /\ \A k \in Clients : (paddle_ready[k] => paddle_engine[k] = 1)
                          /\ (clip_ready[k] => clip_model[k] = 1)
    /\ \A t \in Threads :
          /\ (ith[t].pc \in PaddleLocked <=> paddle_lock = t)
          /\ (ith[t].pc \in ClipLocked <=> clip_lock = t)
          /\ ~(paddle_lock = t /\ clip_lock = t)
          /\ (ith[t].ret = "true" /\ ith[t].kind = "paddle") =>
                (paddle_ready[ith[t].client] /\ paddle_engine[ith[t].client] = 1)
          /\ (ith[t].ret = "true" /\ ith[t].kind = "clip") =>
                (clip_ready[ith[t].client] /\ clip_model[ith[t].client] = 1)

\* A thread found the paddle lock taken, waited, and returned True reusing
\* the engine that the other thread had constructed.
C10_Witness ==
    \E t, u \in Threads :
        /\ t # u
        /\ ith[t].kind = "paddle" /\ ith[t].waited /\ ith[t].ret = "true" /\ ~ith[t].built
        /\ ith[u].kind = "paddle" /\ ith[u].built /\ ith[u].client = ith[t].client
        /\ paddle_engine[ith[t].client] = 1

====
